---- MODULE Spec2Model ----
(***************************************************************************)
(* Verification model of the JS5 asset pipeline of model-viewer-rs:        *)
(*   - the group store (runetek5/js5/js5.rs, struct Js5) together with the *)
(*     polling network provider (runetek5/js5/net.rs),                     *)
(*   - the archive index decoder (Js5Index::decode),                       *)
(*   - the unlit mesh triangle index decoder and the mesh merger           *)
(*     (runetek5/graphics/model.rs),                                       *)
(*   - the lit mesh builder, the lighting kernel and the copy-on-write     *)
(*     transforms of the lit mesh (runetek5/graphics/model.rs),            *)
(*   - a single network request with its producer task and its pollers     *)
(*     (runetek5/js5/net.rs).                                              *)
(*                                                                         *)
(* Option<T> is modelled as a sequence of length 0 (None) or 1 (Some(x)).  *)
(* Vec<T> is modelled as a 1-indexed sequence: element i of the Vec is     *)
(* element i+1 of the sequence.                                            *)
(***************************************************************************)
EXTENDS Integers, Sequences, FiniteSets, TLC

VARIABLES
    discard_packed,         \* Js5.discard_packed
    discard_unpacked,       \* Js5.discard_unpacked
    groups,                 \* Js5.groups: group id -> [packed, unpacked]
    slot_lock,              \* holder of each Mutex<Js5GroupData> (0 = free)
    state_lock,             \* holder of Openrs2Js5ResourceProvider.state (0 = free)
    requests,               \* provider state.requests with each request's progress
    queued_request_count,   \* Openrs2Js5NetClient.queued_request_count
    th,                     \* the callers of the store: position and locals
    last,                   \* the call that returned in the last step, if any
    served,                 \* history: the (g, f, bytes) get_file has returned
    ix,                     \* Js5Index::decode in progress
    mesh,                   \* ModelUnlit::decode_indices or merge in progress
    lit,                    \* ModelLit::from_unlit and calc_lit_colours in progress
    cow,                    \* lit meshes and the arrays their Arc handles point to
    req,                    \* one Js5Request, its spawned task and its pollers
    run                     \* a decoder applied to one input: the input and the result

vars == <<discard_packed, discard_unpacked, groups, slot_lock, state_lock,
          requests, queued_request_count, th, last, served, ix, mesh, lit, cow, req, run>>

----------------------------------------------------------------------------
(* Option and Vec helpers *)

None == <<>>

Some(x) == <<x>>

IsSome(o) == Len(o) = 1

IsNone(o) == Len(o) = 0

Unwrap(o) == o[1]

At(v, i) == v[i + 1]

SetAt(v, i, x) == [v EXCEPT ![i + 1] = x]

----------------------------------------------------------------------------
(* Byte reader (runetek5/io/packet.rs) over a sequence of bytes; pos is the *)
(* 0-based cursor.                                                          *)

g1(data, pos) == data[pos + 1]

g2(data, pos) == data[pos + 1] * 256 + data[pos + 2]

g4(data, pos) ==
    ((data[pos + 1] * 256 + data[pos + 2]) * 256 + data[pos + 3]) * 256 + data[pos + 4]

\* get_i32: big-endian two's complement; the model keeps the high byte
\* below 128 or equal to 255 so the value fits the checker's integers.
g4s(data, pos) ==
    IF data[pos + 1] >= 128
    THEN (((data[pos + 1] - 256) * 256 + data[pos + 2]) * 256 + data[pos + 3]) * 256
            + data[pos + 4]
    ELSE g4(data, pos)

----------------------------------------------------------------------------
(* Compression codec (js5.rs, decompress).  The bzip2 and gzip decoders are *)
(* external libraries; LibInflate stands for them: a stream is well formed  *)
(* when every byte is at least 1 and it decodes to the bytes minus one.     *)

LibStreamOk(stream) == \A i \in 1..Len(stream) : stream[i] >= 1

LibInflate(stream) == [i \in 1..Len(stream) |-> stream[i] - 1]

\* Result of a call that may abort: panic = TRUE means the call panicked.
Panicked == [panic |-> TRUE, out |-> <<>>]

Returned(x) == [panic |-> FALSE, out |-> x]

decompress(data) ==
    IF Len(data) < 5 THEN Panicked                 \* buffer underflow in g1/g4
    ELSE LET tag == g1(data, 0)
             compressed_size == g4(data, 1)
         IN  CASE tag = 0 ->
                    IF 5 + compressed_size > Len(data) THEN Panicked
                    ELSE Returned(SubSeq(data, 6, 5 + compressed_size))
               [] tag \in {1, 2} ->
                    IF Len(data) < 9 THEN Panicked
                    ELSE LET stream == SubSeq(data, 10, Len(data))
                         IN  IF LibStreamOk(stream) THEN Returned(LibInflate(stream))
                             ELSE Panicked
               [] tag = 3 -> Panicked               \* unimplemented!()
               [] OTHER -> Panicked                 \* try_into().unwrap()

----------------------------------------------------------------------------
(* The archive index the store is built over (struct Js5Index): groups 0   *)
(* and 2 are listed, group 1 is a hole; group 0 has the single file 0,     *)
(* group 2 has the two files 0 and 2 (a sparse file-id list).              *)

index ==
    [ group_count           |-> 2,
      group_capacity        |-> 3,
      group_ids             |-> <<0, 2>>,
      group_file_counts     |-> <<1, 0, 2>>,
      group_file_capacities |-> <<1, 0, 3>>,
      group_file_ids        |-> <<None, None, Some(<<0, 2>>)>> ]

get_file_count(group_id) == At(index.group_file_counts, group_id)

get_file_capacity(group_id) == At(index.group_file_capacities, group_id)

get_file_ids(group_id) == At(index.group_file_ids, group_id)

is_group_valid(group_id) ==
    /\ group_id < index.group_capacity
    /\ At(index.group_file_capacities, group_id) > 0

is_file_valid(group_id, file_id) ==
    /\ group_id < index.group_capacity
    /\ file_id < At(index.group_file_capacities, group_id)

\* Variant: the sparse file-id list is ignored.
ListedFileId_dense(group_id, i) == i

\* The i-th listed file id of a group (the match on file_ids in unpack_group).
ListedFileId(group_id, i) ==
    IF IsSome(get_file_ids(group_id)) THEN At(Unwrap(get_file_ids(group_id)), i) ELSE i

ListedFileIds(group_id) ==
    { ListedFileId(group_id, i) : i \in 0..(get_file_count(group_id) - 1) }

----------------------------------------------------------------------------
(* What the server holds for each group (the bytes Openrs2Js5NetClient::    *)
(* fetch delivers).  Group 0: container type 0 around the single file 7 8.  *)
(* Group 2: container type 0 around  5 | 6 9 | deltas +1 +1 | chunks = 1,   *)
(* i.e. file 0 = 5 and file 2 = 6 9.                                        *)

ServerBlob(group_id) ==
    IF group_id = 0
    THEN <<0, 0, 0, 0, 2, 7, 8>>
    ELSE <<0, 0, 0, 0, 12, 5, 6, 9, 0, 0, 0, 1, 0, 0, 0, 1, 1>>

----------------------------------------------------------------------------
(* Splitting a decompressed multi-file group (js5.rs, unpack_group, the     *)
(* file_count >= 2 branch).                                                 *)

SplitChunks(decompressed) == decompressed[Len(decompressed)]

SplitMetaStart(decompressed, file_count) ==
    Len(decompressed) - 1 - file_count * SplitChunks(decompressed) * 4

\* The n-th delta of the trailer, n = chunk * file_count + file.
SplitDelta(decompressed, file_count, n) ==
    g4s(decompressed, SplitMetaStart(decompressed, file_count) + 4 * n)

\* file_size after reading delta n: the running sum restarts in every chunk.
RECURSIVE SplitPieceLen(_, _, _)
SplitPieceLen(decompressed, file_count, n) ==
    IF n % file_count = 0
    THEN SplitDelta(decompressed, file_count, n)
    ELSE SplitPieceLen(decompressed, file_count, n - 1)
            + SplitDelta(decompressed, file_count, n)

\* Position of data_buf before piece n is taken.
RECURSIVE SplitPieceStart(_, _, _)
SplitPieceStart(decompressed, file_count, n) ==
    IF n = 0 THEN 0
    ELSE SplitPieceStart(decompressed, file_count, n - 1)
            + SplitPieceLen(decompressed, file_count, n - 1)

\* Variant: a piece is as long as its own delta.
SplitPiece_by_delta(decompressed, file_count, n) ==
    SubSeq(decompressed,
           SplitPieceStart(decompressed, file_count, n) + 1,
           SplitPieceStart(decompressed, file_count, n)
              + SplitDelta(decompressed, file_count, n))

\* The piece data_buf[..file_size] taken for delta n.
SplitPiece(decompressed, file_count, n) ==
    SubSeq(decompressed,
           SplitPieceStart(decompressed, file_count, n) + 1,
           SplitPieceStart(decompressed, file_count, n)
              + SplitPieceLen(decompressed, file_count, n))

\* files[j] after the chunks 0..chunk have been copied.
RECURSIVE SplitFile(_, _, _, _)
SplitFile(decompressed, file_count, j, chunk) ==
    IF chunk < 0 THEN <<>>
    ELSE SplitFile(decompressed, file_count, j, chunk - 1)
            \o SplitPiece(decompressed, file_count, chunk * file_count + j)

\* The split aborts on a usize underflow of the trailer position and on a
\* piece whose length is negative or runs past the end of the buffer.
SplitPanics(decompressed, file_count) ==
    \/ Len(decompressed) = 0
    \/ SplitMetaStart(decompressed, file_count) < 0
    \/ \E n \in 0..(file_count * SplitChunks(decompressed) - 1) :
          \/ SplitPieceLen(decompressed, file_count, n) < 0
          \/ SplitPieceStart(decompressed, file_count, n)
                + SplitPieceLen(decompressed, file_count, n) > Len(decompressed)

SplitFiles(decompressed, file_count) ==
    [j \in 1..file_count |->
        SplitFile(decompressed, file_count, j - 1, SplitChunks(decompressed) - 1)]

----------------------------------------------------------------------------
(* Group store (js5.rs, struct Js5).                                        *)

EmptySlot == [packed |-> None, unpacked |-> None]

\* Variant: the table is never taken as valid.
AllListedUnpacked_skipped(unpacked, group_id) == FALSE

\* `valid` of unpack_group: every listed file is present in the table.
AllListedUnpacked(unpacked, group_id) ==
    \A i \in 0..(get_file_count(group_id) - 1) :
        IsSome(At(unpacked, ListedFileId(group_id, i)))

\* Variant: the packed bytes are dropped whatever discard_packed says.
PackedAfterDecompress_always(packed) == None

\* The packed field after decompress(): `if self.discard_packed`.
PackedAfterDecompress(packed) == IF discard_packed THEN None ELSE packed

\* unpack_group on the slot value group_data.  ok is the returned bool, data
\* the slot afterwards, decs the number of decompress() calls it made.
unpack_group(group_data, group_id) ==
    IF ~is_group_valid(group_id) \/ IsNone(group_data.packed)
    THEN [panic |-> FALSE, ok |-> FALSE, data |-> group_data, decs |-> 0]
    ELSE
    LET file_count == get_file_count(group_id)
        unpacked ==                                 \* get_or_insert_with
            IF IsSome(group_data.unpacked) THEN Unwrap(group_data.unpacked)
            ELSE [k \in 1..get_file_capacity(group_id) |-> None]
        valid == AllListedUnpacked(unpacked, group_id)
        decompressed == decompress(Unwrap(group_data.packed))
        packed == PackedAfterDecompress(group_data.packed)
    IN  IF valid
        THEN [panic |-> FALSE, ok |-> TRUE,
              data |-> [group_data EXCEPT !.unpacked = Some(unpacked)], decs |-> 0]
        ELSE IF decompressed.panic
        THEN [panic |-> TRUE, ok |-> FALSE, data |-> group_data, decs |-> 1]
        ELSE IF file_count <= 1
        THEN [panic |-> FALSE, ok |-> TRUE, decs |-> 1,
              data |-> [packed |-> packed,
                        unpacked |-> Some(SetAt(unpacked, ListedFileId(group_id, 0),
                                                Some(decompressed.out)))]]
        ELSE IF SplitPanics(decompressed.out, file_count)
        THEN [panic |-> TRUE, ok |-> FALSE, data |-> group_data, decs |-> 1]
        ELSE [panic |-> FALSE, ok |-> TRUE, decs |-> 1,
              data |-> [packed |-> packed,
                        unpacked |-> Some(
                          [k \in 1..Len(unpacked) |->
                             IF \E i \in 0..(file_count - 1) :
                                   ListedFileId(group_id, i) = k - 1
                             THEN Some(SplitFiles(decompressed.out, file_count)[
                                    (CHOOSE i \in 0..(file_count - 1) :
                                        ListedFileId(group_id, i) = k - 1) + 1])
                             ELSE unpacked[k]])]]

\* Variant: eviction whatever discard_unpacked says.
ShouldEvict_always(file) == IsSome(file)

\* get_file: `if file.is_some() && self.discard_unpacked`.
ShouldEvict(file) == IsSome(file) /\ discard_unpacked

\* Variant: the whole table is dropped for every group.
evict_table(group_data, group_id, file_id) == [group_data EXCEPT !.unpacked = None]

\* get_file: the eviction of the requested file from the slot.
evict(group_data, group_id, file_id) ==
    IF get_file_count(group_id) = 1
    THEN [group_data EXCEPT !.unpacked = None]
    ELSE [group_data EXCEPT
            !.unpacked = Some(SetAt(Unwrap(group_data.unpacked), file_id, None))]

\* get_file from `let unpacked_files = ...` on: read the file and evict.
\* file is the returned value, data the slot afterwards.
read_and_evict(group_data, group_id, file_id) ==
    LET file == At(Unwrap(group_data.unpacked), file_id)
    IN  [file |-> file,
         data |-> IF ShouldEvict(file) THEN evict(group_data, group_id, file_id)
                  ELSE group_data]

----------------------------------------------------------------------------
(* Callers.  A caller is idle, waits for a slot lock (lock_slot), holds a   *)
(* slot lock and waits for the provider state lock (lock_state), is inside  *)
(* the provider holding both (in_provider) or has panicked (panic).  The    *)
(* step in which a call returns records the call and its result in `last`;  *)
(* every other step clears it.                                              *)

Threads == {1, 2}

\* The arguments the callers use.  get_file: the listed files (0, 0) and
\* (2, 0), the hole (2, 1) of group 2's sparse file-id list, a file id past
\* the capacity (0, 1), the group 1 without files and the group 3 past the
\* group capacity.
GetFileArgs == {<<0, 0>>, <<2, 0>>, <<2, 1>>, <<0, 1>>, <<1, 0>>, <<3, 0>>}

IsFileReadyArgs == {<<2, 0>>, <<0, 1>>, <<1, 0>>}

IsGroupReadyArgs == {2, 3}

Idle == [pc |-> "idle", op |-> "none", g |-> 0, f |-> 0, i |-> 0, success |-> TRUE]

NoCall ==
    [t |-> 0, op |-> "none", g |-> 0, f |-> 0, ret |-> None, retb |-> FALSE,
     decs |-> 0, fetched |-> FALSE]

\* A call of thread t returned: ret is the Option<Bytes> of get_file, retb
\* the bool of the other operations, decs the number of decompress() calls
\* and fetched whether the provider's fetch_group was called in this step.
CallReturned(t, op, g, f, ret, retb, decs, fetched) ==
    [t |-> t, op |-> op, g |-> g, f |-> f, ret |-> ret, retb |-> retb,
     decs |-> decs, fetched |-> fetched]

Alive == \A t \in Threads : th[t].pc # "panic"

Calling(op, g, f) == [Idle EXCEPT !.pc = "lock_slot", !.op = op, !.g = g, !.f = f]

ProviderUnchanged == UNCHANGED <<state_lock, requests, queued_request_count>>

\* No store operation changes the flags or runs a decoder.
FlagsUnchanged == UNCHANGED <<discard_packed, discard_unpacked, ix, mesh, lit, cow, req, run>>

StoreUnchanged ==
    /\ UNCHANGED <<groups, slot_lock, served>>
    /\ ProviderUnchanged /\ FlagsUnchanged

\* Thread t is at the lock() of slot g in the operation op(g, f) and the
\* lock is free.
AtLock(t, op, g, f) ==
    /\ Alive
    /\ th[t].pc = "lock_slot"
    /\ th[t].op = op /\ th[t].g = g /\ th[t].f = f
    /\ slot_lock[g] = 0

\* Thread t calls op(g, f), the arguments having passed the validity check.
Call(t, op, g, f) ==
    /\ Alive /\ th[t].pc = "idle"
    /\ th' = [th EXCEPT ![t] = Calling(op, g, f)]
    /\ last' = NoCall
    /\ StoreUnchanged

\* get_file, is_file_valid fails: return None without touching a slot.
GetFileInvalid(t, g, f) ==
    /\ Alive /\ th[t].pc = "idle"
    /\ ~is_file_valid(g, f)
    /\ last' = CallReturned(t, "get_file", g, f, None, FALSE, 0, FALSE)
    /\ UNCHANGED th
    /\ StoreUnchanged

GetFileCall(t, g, f) == is_file_valid(g, f) /\ Call(t, "get_file", g, f)

\* get_file on the slot value group_data up to the first unpack_group: ok
\* tells whether the file can be served without a fetch, read is the result
\* of read_and_evict in that case.
GetFileHit(group_data, g, f) ==
    LET ready == IsSome(group_data.unpacked) /\ IsSome(At(Unwrap(group_data.unpacked), f))
        u == unpack_group(group_data, g)
    IN  IF ready
        THEN [panic |-> FALSE, ok |-> TRUE, decs |-> 0,
              read |-> read_and_evict(group_data, g, f)]
        ELSE [panic |-> u.panic, ok |-> u.ok, decs |-> u.decs,
              read |-> IF u.ok THEN read_and_evict(u.data, g, f)
                       ELSE [file |-> None, data |-> u.data]]

\* get_file locks the slot and serves the file without calling the provider.
GetFileServe(t, g, f) ==
    /\ is_file_valid(g, f)
    /\ AtLock(t, "get_file", g, f)
    /\ LET h == GetFileHit(groups[g], g, f)
       IN  /\ h.ok /\ ~h.panic
           /\ groups' = [groups EXCEPT ![g] = h.read.data]
           /\ last' = CallReturned(t, "get_file", g, f, h.read.file, FALSE, h.decs, FALSE)
           /\ served' = IF IsSome(h.read.file)
                        THEN served \cup {<<g, f, Unwrap(h.read.file)>>} ELSE served
    /\ th' = [th EXCEPT ![t] = Idle]
    /\ UNCHANGED slot_lock
    /\ ProviderUnchanged /\ FlagsUnchanged

\* A locked slot has no packed bytes for the operation: the caller goes on
\* to fetch_group with the slot lock held.
GoFetch(t, op, g, f) ==
    /\ slot_lock' = [slot_lock EXCEPT ![g] = t]
    /\ th' = [th EXCEPT ![t] = [th[t] EXCEPT !.pc = "lock_state", !.op = op,
                                              !.g = g, !.f = f]]
    /\ last' = NoCall
    /\ UNCHANGED <<groups, served>>
    /\ ProviderUnchanged /\ FlagsUnchanged

\* get_file locks the slot and the first unpack_group fails (no packed
\* bytes).
GetFileMiss(t, g, f) ==
    /\ is_file_valid(g, f)
    /\ AtLock(t, "get_file", g, f)
    /\ LET h == GetFileHit(groups[g], g, f)
       IN  ~h.ok /\ ~h.panic
    /\ GoFetch(t, "get_file", g, f)

\* is_group_ready on a group that fails is_group_valid: false.
IsGroupReadyInvalid(t, g) ==
    /\ Alive /\ th[t].pc = "idle"
    /\ ~is_group_valid(g)
    /\ last' = CallReturned(t, "is_group_ready", g, 0, None, FALSE, 0, FALSE)
    /\ UNCHANGED th
    /\ StoreUnchanged

IsGroupReadyCall(t, g) == is_group_valid(g) /\ Call(t, "is_group_ready", g, 0)

\* is_group_ready locks the slot and finds packed bytes: true.
IsGroupReadyHit(t, g) ==
    /\ is_group_valid(g)
    /\ AtLock(t, "is_group_ready", g, 0)
    /\ IsSome(groups[g].packed)
    /\ last' = CallReturned(t, "is_group_ready", g, 0, None, TRUE, 0, FALSE)
    /\ th' = [th EXCEPT ![t] = Idle]
    /\ StoreUnchanged

IsGroupReadyMiss(t, g) ==
    /\ is_group_valid(g)
    /\ AtLock(t, "is_group_ready", g, 0)
    /\ IsNone(groups[g].packed)
    /\ GoFetch(t, "is_group_ready", g, 0)

\* is_file_ready on a group that fails is_group_valid: false.
IsFileReadyInvalid(t, g, f) ==
    /\ Alive /\ th[t].pc = "idle"
    /\ ~is_group_valid(g)
    /\ last' = CallReturned(t, "is_file_ready", g, f, None, FALSE, 0, FALSE)
    /\ UNCHANGED th
    /\ StoreUnchanged

IsFileReadyCall(t, g, f) == is_group_valid(g) /\ Call(t, "is_file_ready", g, f)

\* is_file_ready locks the slot and answers from the unpacked table, or
\* from the packed bytes when there is no table.
IsFileReadyHit(t, g, f) ==
    /\ is_group_valid(g)
    /\ AtLock(t, "is_file_ready", g, f)
    /\ \/ /\ IsSome(groups[g].unpacked)
          /\ f < Len(Unwrap(groups[g].unpacked))
          /\ last' = CallReturned(t, "is_file_ready", g, f, None,
                                  IsSome(At(Unwrap(groups[g].unpacked), f)), 0, FALSE)
       \/ /\ IsNone(groups[g].unpacked)
          /\ IsSome(groups[g].packed)
          /\ last' = CallReturned(t, "is_file_ready", g, f, None, TRUE, 0, FALSE)
    /\ th' = [th EXCEPT ![t] = Idle]
    /\ StoreUnchanged

IsFileReadyMiss(t, g, f) ==
    /\ is_group_valid(g)
    /\ AtLock(t, "is_file_ready", g, f)
    /\ IsNone(groups[g].unpacked) /\ IsNone(groups[g].packed)
    /\ GoFetch(t, "is_file_ready", g, f)

\* is_file_ready indexes the unpacked table past its end: the index
\* expression panics with the slot lock held.
IsFileReadyPanic(t, g, f) ==
    /\ is_group_valid(g)
    /\ AtLock(t, "is_file_ready", g, f)
    /\ IsSome(groups[g].unpacked)
    /\ f >= Len(Unwrap(groups[g].unpacked))
    /\ slot_lock' = [slot_lock EXCEPT ![g] = t]
    /\ th' = [th EXCEPT ![t] = [Calling("is_file_ready", g, f) EXCEPT !.pc = "panic"]]
    /\ last' = NoCall
    /\ UNCHANGED <<groups, served>>
    /\ ProviderUnchanged /\ FlagsUnchanged

\* fetch_all is at position i of its loop over index.group_ids, at the
\* lock() of that group's slot, and the lock is free.
FetchAllAtLock(t, i) ==
    /\ Alive
    /\ th[t].pc = "lock_slot" /\ th[t].op = "fetch_all" /\ th[t].i = i
    /\ slot_lock[At(index.group_ids, i)] = 0

\* fetch_all starts its loop over index.group_ids at position 0.
FetchAllCall(t) ==
    /\ index.group_count > 0
    /\ Call(t, "fetch_all", At(index.group_ids, 0), 0)

\* fetch_all after the loop body for position i: the next position, or the
\* return of `success`.
FetchAllAdvance(t, i, success, fetched) ==
    IF i + 1 < index.group_count
    THEN /\ th' = [th EXCEPT ![t] =
                     [Calling("fetch_all", At(index.group_ids, i + 1), 0)
                        EXCEPT !.i = i + 1, !.success = success]]
         /\ last' = NoCall
    ELSE /\ th' = [th EXCEPT ![t] = Idle]
         /\ last' = CallReturned(t, "fetch_all", 0, 0, None, success, 0, fetched)

\* Variant: the slot is passed over without looking at its packed bytes.
FetchAllSkip_unchecked(t, i) ==
    /\ FetchAllAtLock(t, i)
    /\ FetchAllAdvance(t, i, th[t].success, FALSE)
    /\ StoreUnchanged

\* fetch_all locks the next slot and finds packed bytes: nothing to fetch.
FetchAllSkip(t, i) ==
    /\ FetchAllAtLock(t, i)
    /\ IsSome(groups[At(index.group_ids, i)].packed)
    /\ FetchAllAdvance(t, i, th[t].success, FALSE)
    /\ StoreUnchanged

\* fetch_all locks the next slot and finds no packed bytes.
FetchAllMiss(t, i) ==
    /\ FetchAllAtLock(t, i)
    /\ IsNone(groups[At(index.group_ids, i)].packed)
    /\ slot_lock' = [slot_lock EXCEPT ![At(index.group_ids, i)] = t]
    /\ th' = [th EXCEPT ![t] =
                [Calling("fetch_all", At(index.group_ids, i), 0)
                   EXCEPT !.pc = "lock_state", !.i = i, !.success = th[t].success]]
    /\ last' = NoCall
    /\ UNCHANGED <<groups, served>>
    /\ ProviderUnchanged /\ FlagsUnchanged

----------------------------------------------------------------------------
(* Network provider (net.rs).  A request is [completed, data]; data is the *)
(* Js5RequestDataState: None for NotLoaded, Some(bytes) for Loaded.  The    *)
(* task spawned by queue_request is at the await while the request is not   *)
(* completed.                                                               *)

MaxQueued == 20

\* Variant: a request counts as completed from the start.
NewRequest_completed == [completed |-> TRUE, data |-> None]

\* Js5Request::new.
NewRequest == [completed |-> FALSE, data |-> None]

\* Requests in the table of this provider whose task has not completed.
OwnPending ==
    Cardinality({g \in DOMAIN requests :
                    IsSome(requests[g]) /\ ~Unwrap(requests[g]).completed})

\* Js5Request::get_data (the Loading state is never entered: init_data has
\* no caller).
get_data(request) == request.data

\* Variant: the slot lock is kept after the operation.
ReleaseSlot_leak(g) == UNCHANGED slot_lock

\* The MutexGuard of slot g is dropped.
ReleaseSlot(g) == slot_lock' = [slot_lock EXCEPT ![g] = 0]

\* Js5::fetch_group has stored `result` in the slot the caller holds: the
\* rest of the operation up to the release of the slot lock.
AfterFetch(t, result) ==
    LET g == th[t].g
        fetched == [groups[g] EXCEPT !.packed = result]
    IN  /\ ReleaseSlot(g)
        /\ CASE th[t].op = "get_file" ->
                  LET u == unpack_group(fetched, g)
                      r == IF u.ok THEN read_and_evict(u.data, g, th[t].f)
                           ELSE [file |-> None, data |-> u.data]
                  IN  /\ groups' = [groups EXCEPT ![g] = r.data]
                      /\ th' = [th EXCEPT ![t] = Idle]
                      /\ last' = CallReturned(t, "get_file", g, th[t].f, r.file, FALSE,
                                              u.decs, TRUE)
                      /\ served' = IF IsSome(r.file)
                                   THEN served \cup {<<g, th[t].f, Unwrap(r.file)>>}
                                   ELSE served
             [] th[t].op = "fetch_all" ->
                  /\ groups' = [groups EXCEPT ![g] = fetched]
                  /\ FetchAllAdvance(t, th[t].i, th[t].success /\ IsSome(result), TRUE)
                  /\ UNCHANGED served
             [] OTHER ->
                  /\ groups' = [groups EXCEPT ![g] = fetched]
                  /\ th' = [th EXCEPT ![t] = Idle]
                  /\ last' = CallReturned(t, th[t].op, g, th[t].f, None, IsSome(result),
                                          0, TRUE)
                  /\ UNCHANGED served

\* Variant: fetch_group queues a request whether or not the table has one.
ProviderEnter_requeue(t) ==
    /\ Alive /\ th[t].pc = "lock_state"
    /\ state_lock = 0
    /\ queued_request_count < MaxQueued
    /\ queued_request_count' = queued_request_count + 1
    /\ requests' = [requests EXCEPT ![th[t].g] = Some(NewRequest)]
    /\ state_lock' = t
    /\ th' = [th EXCEPT ![t].pc = "in_provider"]
    /\ last' = NoCall
    /\ UNCHANGED <<groups, slot_lock, served>>
    /\ FlagsUnchanged

\* fetch_group locks the provider state and finds or queues the request.
ProviderEnter(t) ==
    /\ Alive /\ th[t].pc = "lock_state"
    /\ state_lock = 0
    /\ \/ IsSome(requests[th[t].g]) /\ UNCHANGED <<requests, queued_request_count>>
       \/ /\ IsNone(requests[th[t].g])
          /\ queued_request_count < MaxQueued
          /\ queued_request_count' = queued_request_count + 1
          /\ requests' = [requests EXCEPT ![th[t].g] = Some(NewRequest)]
    /\ state_lock' = t
    /\ th' = [th EXCEPT ![t].pc = "in_provider"]
    /\ last' = NoCall
    /\ UNCHANGED <<groups, slot_lock, served>>
    /\ FlagsUnchanged

\* fetch_group finds no request and queue_request refuses (20 queued): None.
ProviderQueueFull(t) ==
    /\ Alive /\ th[t].pc = "lock_state"
    /\ state_lock = 0
    /\ IsNone(requests[th[t].g])
    /\ queued_request_count >= MaxQueued
    /\ AfterFetch(t, None)
    /\ ProviderUnchanged /\ FlagsUnchanged

\* fetch_group polls the request: None while it is not completed, else the
\* request leaves the table and its data is returned.
ProviderPoll(t) ==
    /\ Alive /\ th[t].pc = "in_provider"
    /\ LET request == Unwrap(requests[th[t].g])
       IN  IF ~request.completed
           THEN AfterFetch(t, None) /\ UNCHANGED requests
           ELSE /\ requests' = [requests EXCEPT ![th[t].g] = None]
                /\ AfterFetch(t, get_data(request))
    /\ state_lock' = 0
    /\ UNCHANGED queued_request_count
    /\ FlagsUnchanged

\* The spawned task: fetch resolved Ok; complete_data stores the bytes,
\* mark_complete sets the flag, then fetch_sub.
TaskOk(g) ==
    /\ Alive
    /\ IsSome(requests[g])
    /\ ~Unwrap(requests[g]).completed
    /\ requests' = [requests EXCEPT ![g] =
                      Some([completed |-> TRUE, data |-> Some(ServerBlob(g))])]
    /\ queued_request_count' = queued_request_count - 1
    /\ last' = NoCall
    /\ UNCHANGED <<groups, slot_lock, state_lock, th, served>>
    /\ FlagsUnchanged

\* The spawned task: fetch resolved Err, mark_complete without data, then
\* fetch_sub.
TaskFail(g) ==
    /\ Alive
    /\ IsSome(requests[g])
    /\ ~Unwrap(requests[g]).completed
    /\ requests' = [requests EXCEPT ![g] =
                      Some([Unwrap(requests[g]) EXCEPT !.completed = TRUE])]
    /\ queued_request_count' = queued_request_count - 1
    /\ last' = NoCall
    /\ UNCHANGED <<groups, slot_lock, state_lock, th, served>>
    /\ FlagsUnchanged

\* The net client is shared with the providers of the other archives
\* (main.rs).  The tasks of their requests complete and do their fetch_sub:
\* the requests of this provider remain.
OtherTasksDone ==
    /\ Alive
    /\ queued_request_count > OwnPending
    /\ queued_request_count' = OwnPending
    /\ last' = NoCall
    /\ UNCHANGED <<groups, slot_lock, state_lock, requests, th, served>>
    /\ FlagsUnchanged

----------------------------------------------------------------------------
(* Archive index decoder (js5.rs, Js5Index::decode).  ix is the decoder:    *)
(* its input (data, expected_crc), its position (pc), the read cursor and   *)
(* the locals and fields computed so far.                                   *)

\* crc32fast::hash is an external crate; LibCrc32 stands for it (a weighted
\* byte sum of 16 bits).
RECURSIVE WeightedSum(_, _)
WeightedSum(data, n) ==
    IF n = 0 THEN 0 ELSE (WeightedSum(data, n - 1) + n * data[n]) % 65536

LibCrc32(data) == WeightedSum(data, Len(data))

\* Result of a read of the buffer: ok = FALSE is the panic of a read past
\* the end.
ReadFail == [ok |-> FALSE, val |-> 0, pos |-> 0]

ReadOk(val, pos) == [ok |-> TRUE, val |-> val, pos |-> pos]

get_smart_2_or_4(buffer, pos) ==
    IF pos >= Len(buffer) THEN ReadFail
    ELSE IF buffer[pos + 1] >= 128
    THEN IF pos + 4 > Len(buffer) THEN ReadFail
         ELSE ReadOk((((buffer[pos + 1] - 128) * 256 + buffer[pos + 2]) * 256
                         + buffer[pos + 3]) * 256 + buffer[pos + 4], pos + 4)
    ELSE IF pos + 2 > Len(buffer) THEN ReadFail
    ELSE ReadOk(g2(buffer, pos), pos + 2)

\* One read of the given kind at pos: "smart" and "g2" are the two closures
\* `read` of decode, "g4" and "g4s" the fixed-width reads.
ReadOne(kind, buffer, pos) ==
    CASE kind = "smart" -> get_smart_2_or_4(buffer, pos)
      [] kind = "g2" ->
            IF pos + 2 > Len(buffer) THEN ReadFail ELSE ReadOk(g2(buffer, pos), pos + 2)
      [] kind = "g4" ->
            IF pos + 4 > Len(buffer) THEN ReadFail ELSE ReadOk(g4(buffer, pos), pos + 4)
      [] OTHER ->
            IF pos + 4 > Len(buffer) THEN ReadFail ELSE ReadOk(g4s(buffer, pos), pos + 4)

\* The closure `read` chosen by the protocol.
read(protocol) == IF protocol = 7 THEN "smart" ELSE "g2"

ReadManyFail == [ok |-> FALSE, vals |-> <<>>, pos |-> 0]

\* n consecutive reads starting at pos.
RECURSIVE ReadMany(_, _, _, _)
ReadMany(kind, buffer, pos, n) ==
    IF n = 0 THEN [ok |-> TRUE, vals |-> <<>>, pos |-> pos]
    ELSE LET head == ReadMany(kind, buffer, pos, n - 1)
         IN  IF ~head.ok THEN ReadManyFail
             ELSE LET r == ReadOne(kind, buffer, head.pos)
                  IN  IF ~r.ok THEN ReadManyFail
                      ELSE [ok |-> TRUE, vals |-> Append(head.vals, r.val),
                            pos |-> r.pos]

\* A read of n values that happens only `when` its flag is set, after the
\* reads before it (prev) went well.
ReadWhen(when, prev, kind, buffer, n) ==
    IF ~prev.ok THEN ReadManyFail
    ELSE IF when THEN ReadMany(kind, buffer, prev.pos, n)
    ELSE [ok |-> TRUE, vals |-> <<>>, pos |-> prev.pos]

\* get_array of n arrays of `size` bytes: the bytes are kept as one value.
SkipWhen(when, prev, buffer, size, n) ==
    IF ~prev.ok THEN ReadManyFail
    ELSE IF ~when THEN [ok |-> TRUE, vals |-> <<>>, pos |-> prev.pos]
    ELSE IF prev.pos + size * n > Len(buffer) THEN ReadManyFail
    ELSE [ok |-> TRUE, pos |-> prev.pos + size * n,
          vals |-> [i \in 1..n |-> SubSeq(buffer, prev.pos + size * (i - 1) + 1,
                                         prev.pos + size * i)]]

\* last_group_id / last_file_id after each `+= read(..)`.
RECURSIVE PrefixSums(_)
PrefixSums(deltas) ==
    IF Len(deltas) = 0 THEN <<>>
    ELSE LET head == PrefixSums(SubSeq(deltas, 1, Len(deltas) - 1))
         IN  Append(head, (IF Len(head) = 0 THEN 0 ELSE head[Len(head)])
                             + deltas[Len(deltas)])

\* Variant: the per-group values are stored by position, not by group id.
Scatter_compact(vals, group_ids, group_capacity, default) == vals

\* vec![default; group_capacity] followed by the loop
\* `v[group_ids[i]] = vals[i]`: the last write to an entry stays.
Scatter(vals, group_ids, group_capacity, default) ==
    [k \in 1..group_capacity |->
        LET hits == {i \in 1..Len(group_ids) : group_ids[i] = k - 1}
        IN  IF hits = {} THEN default
            ELSE vals[CHOOSE i \in hits : \A j \in hits : j <= i]]

\* Js5IndexFlags::contains for the flag with the given bit value.
HasFlag(flags, bit) == (flags \div bit) % 2 = 1

IxIdle ==
    [pc |-> "idle", data |-> <<>>, expected_crc |-> None, crc |-> 0,
     buffer |-> <<>>, pos |-> 0, protocol |-> 0, version |-> 0, flags |-> 0,
     group_count |-> 0, group_id_deltas |-> <<>>, group_ids |-> <<>>,
     group_capacity |-> 0,
     group_name_hashes |-> None, group_checksums |-> <<>>,
     group_uncompressed_checksums |-> None, group_whirlpool_hashes |-> None,
     group_data_sizes |-> None, group_uncompressed_data_sizes |-> None,
     group_versions |-> <<>>, group_file_counts |-> <<>>,
     group_file_capacities |-> <<>>, group_file_ids |-> <<>>,
     group_file_name_hashes |-> None, group_md5_hashes |-> None]

\* Js5Index::decode is called with (data, expected_crc).
IxStart(data, expected_crc) ==
    [IxIdle EXCEPT !.pc = "crc", !.data = data, !.expected_crc = expected_crc]

IxPanic(r) == [r EXCEPT !.pc = "panic"]

\* crc32fast::hash and the assert_eq! on the expected CRC.
decode_crc(r) ==
    LET crc == LibCrc32(r.data)
    IN  IF IsSome(r.expected_crc) /\ Unwrap(r.expected_crc) # crc THEN IxPanic(r)
        ELSE [r EXCEPT !.pc = "decompress", !.crc = crc]

\* `Bytes::from(decompress(data))`.
decode_decompress(r) ==
    LET d == decompress(r.data)
    IN  IF d.panic THEN IxPanic(r)
        ELSE [r EXCEPT !.pc = "header", !.buffer = d.out, !.pos = 0]

\* protocol, version, flags and group_count.
decode_header(r) ==
    IF Len(r.buffer) < 1 \/ g1(r.buffer, 0) \notin {5, 6, 7} THEN IxPanic(r)
    ELSE LET protocol == g1(r.buffer, 0)
             version == IF protocol >= 6 THEN ReadOne("g4", r.buffer, 1)
                        ELSE ReadOk(0, 1)
             count == ReadOne(read(protocol), r.buffer, version.pos + 1)
         IN  IF ~version.ok \/ version.pos >= Len(r.buffer) THEN IxPanic(r)
             ELSE IF ~count.ok THEN IxPanic(r)
             ELSE [r EXCEPT !.pc = "group_ids", !.protocol = protocol,
                            !.version = version.val,
                            !.flags = g1(r.buffer, version.pos),
                            !.group_count = count.val, !.pos = count.pos]

\* The capacity of a list of ids built from deltas: 0 for no ids, else the
\* last id plus one.
CapacityOf(count, ids) == IF count = 0 THEN 0 ELSE ids[Len(ids)] + 1

\* The group-id loop and group_capacity.
decode_group_ids(r) ==
    LET rd == ReadMany(read(r.protocol), r.buffer, r.pos, r.group_count)
    IN  IF ~rd.ok THEN IxPanic(r)
        ELSE [r EXCEPT !.pc = "group_tables", !.pos = rd.pos,
                       !.group_id_deltas = rd.vals,
                       !.group_ids = PrefixSums(rd.vals),
                       !.group_capacity = CapacityOf(r.group_count, PrefixSums(rd.vals))]

\* A write `v[group_ids[i]] = ..` past the end of a vec of group_capacity
\* entries panics.
ScatterPanics(group_ids, group_capacity) ==
    \E i \in 1..Len(group_ids) : group_ids[i] >= group_capacity

\* A per-group table read when its flag is set.
TableWhen(when, rd, r, default) ==
    IF when THEN Some(Scatter(rd.vals, r.group_ids, r.group_capacity, default))
    ELSE None

\* Name hashes, checksums, uncompressed checksums, whirlpool hashes, data
\* sizes and versions of the groups.
decode_group_tables(r) ==
    LET n == r.group_count
        start == [ok |-> TRUE, vals |-> <<>>, pos |-> r.pos]
        names == ReadWhen(HasFlag(r.flags, 1), start, "g4s", r.buffer, n)
        checksums == ReadWhen(TRUE, names, "g4", r.buffer, n)
        uncompressed == ReadWhen(HasFlag(r.flags, 8), checksums, "g4", r.buffer, n)
        whirlpool == SkipWhen(HasFlag(r.flags, 2), uncompressed, r.buffer, 64, n)
        sizes == ReadWhen(HasFlag(r.flags, 4), whirlpool, "g4", r.buffer, 2 * n)
        versions == ReadWhen(TRUE, sizes, "g4", r.buffer, n)
    IN  IF ~versions.ok \/ ScatterPanics(r.group_ids, r.group_capacity) THEN IxPanic(r)
        ELSE [r EXCEPT
                !.pc = "file_counts", !.pos = versions.pos,
                !.group_name_hashes = TableWhen(HasFlag(r.flags, 1), names, r, -1),
                !.group_checksums = Scatter(checksums.vals, r.group_ids,
                                            r.group_capacity, 0),
                !.group_uncompressed_checksums =
                    TableWhen(HasFlag(r.flags, 8), uncompressed, r, 0),
                !.group_whirlpool_hashes =
                    TableWhen(HasFlag(r.flags, 2), whirlpool, r, <<>>),
                !.group_data_sizes =
                    TableWhen(HasFlag(r.flags, 4),
                              [sizes EXCEPT !.vals = [i \in 1..n |-> sizes.vals[2 * i - 1]]],
                              r, 0),
                !.group_uncompressed_data_sizes =
                    TableWhen(HasFlag(r.flags, 4),
                              [sizes EXCEPT !.vals = [i \in 1..n |-> sizes.vals[2 * i]]],
                              r, 0),
                !.group_versions = Scatter(versions.vals, r.group_ids,
                                           r.group_capacity, 0)]

\* group_file_counts.
decode_file_counts(r) ==
    LET rd == ReadMany(read(r.protocol), r.buffer, r.pos, r.group_count)
    IN  IF ~rd.ok THEN IxPanic(r)
        ELSE [r EXCEPT !.pc = "file_ids", !.pos = rd.pos,
                       !.group_file_counts =
                           Scatter(rd.vals, r.group_ids, r.group_capacity, 0)]

\* The loop over the groups that reads each group's file ids, after its
\* first i iterations: the cursor and the two tables it fills.
RECURSIVE FileIdsLoop(_, _)
FileIdsLoop(r, i) ==
    IF i = 0
    THEN [ok |-> TRUE, pos |-> r.pos,
          group_file_capacities |-> [k \in 1..r.group_capacity |-> 0],
          group_file_ids |-> [k \in 1..r.group_capacity |-> None]]
    ELSE LET prev == FileIdsLoop(r, i - 1)
             group_id == r.group_ids[i]
             file_count == At(r.group_file_counts, group_id)
         IN  IF ~prev.ok THEN prev
             ELSE IF group_id >= Len(r.group_file_counts)   \* index out of bounds
             THEN [prev EXCEPT !.ok = FALSE]
             ELSE LET rd == ReadMany(read(r.protocol), r.buffer, prev.pos, file_count)
                      file_ids == PrefixSums(rd.vals)
                      file_capacity == CapacityOf(file_count, file_ids)
                  IN  IF ~rd.ok THEN [prev EXCEPT !.ok = FALSE]
                      ELSE [ok |-> TRUE, pos |-> rd.pos,
                            group_file_capacities |->
                                SetAt(prev.group_file_capacities, group_id, file_capacity),
                            group_file_ids |->
                                IF file_count # file_capacity
                                THEN SetAt(prev.group_file_ids, group_id, Some(file_ids))
                                ELSE prev.group_file_ids]

decode_file_ids(r) ==
    LET loop == FileIdsLoop(r, r.group_count)
    IN  IF ~loop.ok THEN IxPanic(r)
        ELSE [r EXCEPT !.pc = "trailer", !.pos = loop.pos,
                       !.group_file_capacities = loop.group_file_capacities,
                       !.group_file_ids = loop.group_file_ids]

\* The file-name-hash loop after its first i iterations.
RECURSIVE FileNamesLoop(_, _)
FileNamesLoop(r, i) ==
    IF i = 0
    THEN [ok |-> TRUE, pos |-> r.pos, vals |-> [k \in 1..r.group_capacity |-> <<>>]]
    ELSE LET prev == FileNamesLoop(r, i - 1)
             group_id == r.group_ids[i]
         IN  IF ~prev.ok THEN prev
             ELSE IF group_id >= Len(r.group_file_counts)   \* index out of bounds
             THEN [prev EXCEPT !.ok = FALSE]
             ELSE LET rd == ReadMany("g4s", r.buffer, prev.pos,
                                     At(r.group_file_counts, group_id))
                  IN  IF ~rd.ok THEN [prev EXCEPT !.ok = FALSE]
                      ELSE [ok |-> TRUE, pos |-> rd.pos,
                            vals |-> SetAt(prev.vals, group_id, rd.vals)]

\* File name hashes and md5 hashes; the Js5Index is built.
decode_trailer(r) ==
    LET names == IF HasFlag(r.flags, 1) THEN FileNamesLoop(r, r.group_count)
                 ELSE [ok |-> TRUE, pos |-> r.pos, vals |-> <<>>]
        md5 == SkipWhen(HasFlag(r.flags, 128), names, r.buffer, 16, r.group_count)
    IN  IF ~md5.ok THEN IxPanic(r)
        ELSE [r EXCEPT !.pc = "done", !.pos = md5.pos,
                       !.group_file_name_hashes =
                           IF HasFlag(r.flags, 1) THEN Some(names.vals) ELSE None,
                       !.group_md5_hashes = TableWhen(HasFlag(r.flags, 128), md5, r, <<>>)]

\* No decoder step touches the store.
DecodeStoreUnchanged ==
    UNCHANGED <<discard_packed, discard_unpacked, groups, slot_lock, state_lock,
                requests, queued_request_count, th, last, served>>

\* A step of the index decoder.
IxAction(next) ==
    /\ ix' = next
    /\ UNCHANGED <<mesh, lit, cow, req, run>>
    /\ DecodeStoreUnchanged

IxCrc ==
    /\ ix.pc = "crc"
    /\ IxAction(decode_crc(ix))

IxDecompress ==
    /\ ix.pc = "decompress"
    /\ IxAction(decode_decompress(ix))

IxHeader ==
    /\ ix.pc = "header"
    /\ IxAction(decode_header(ix))

IxGroupIds ==
    /\ ix.pc = "group_ids"
    /\ IxAction(decode_group_ids(ix))

IxGroupTables ==
    /\ ix.pc = "group_tables"
    /\ IxAction(decode_group_tables(ix))

IxFileCounts ==
    /\ ix.pc = "file_counts"
    /\ IxAction(decode_file_counts(ix))

IxFileIds ==
    /\ ix.pc = "file_ids"
    /\ IxAction(decode_file_ids(ix))

IxTrailer ==
    /\ ix.pc = "trailer"
    /\ IxAction(decode_trailer(ix))

----------------------------------------------------------------------------
(* The index data the decoder is run on: a container (tag, length) around   *)
(* protocol, version, flags, group count, group-id deltas, name hashes,     *)
(* checksums, versions, file counts, file-id deltas and file name hashes.   *)

MaxGroups == 2

ContainerTags == {0, 2, 3, 4}

Protocols == {5, 6, 7, 8}

FlagBytes == {0, 1}

GroupDeltas == {0, 1, 3}

\* The file-id deltas of a group: the single file 0, or the files 0 and 2.
FileIdDeltaLists == {<<0>>, <<0, 2>>}

W2(v) == <<v \div 256, v % 256>>

W4(v) == <<0, 0>> \o W2(v)

RECURSIVE Concat(_)
Concat(seqs) ==
    IF Len(seqs) = 0 THEN <<>>
    ELSE Concat(SubSeq(seqs, 1, Len(seqs) - 1)) \o seqs[Len(seqs)]

EncodeIndex(protocol, flags, deltas, files) ==
    LET n == Len(deltas)
    IN  <<protocol>>
        \o (IF protocol >= 6 THEN W4(9) ELSE <<>>)
        \o <<flags>>
        \o W2(n)
        \o Concat([i \in 1..n |-> W2(deltas[i])])
        \o (IF HasFlag(flags, 1) THEN Concat([i \in 1..n |-> W4(40 + i)]) ELSE <<>>)
        \o Concat([i \in 1..n |-> W4(50 + i)])
        \o Concat([i \in 1..n |-> W4(60 + i)])
        \o Concat([i \in 1..n |-> W2(Len(files[i]))])
        \o Concat([i \in 1..n |->
                     Concat([j \in 1..Len(files[i]) |-> W2(files[i][j])])])
        \o (IF HasFlag(flags, 1)
            THEN Concat([i \in 1..n |->
                           Concat([j \in 1..Len(files[i]) |-> W4(70 + j)])])
            ELSE <<>>)

\* The container around a payload: tag 0 stores it, tags 1 and 2 hold the
\* library's stream, tags 3 (lzma) and 4 (unknown) are never decoded.
Container(tag, payload) ==
    CASE tag = 0 -> <<0>> \o W4(Len(payload)) \o payload
      [] tag \in {1, 2} ->
            <<tag>> \o W4(Len(payload)) \o W4(Len(payload))
                \o [i \in 1..Len(payload) |-> payload[i] + 1]
      [] OTHER -> <<tag>> \o W4(0)

IndexData ==
    UNION { { Container(tag, EncodeIndex(protocol, flags, deltas, files)) :
                tag \in ContainerTags, protocol \in Protocols, flags \in FlagBytes,
                deltas \in [1..n -> GroupDeltas], files \in [1..n -> FileIdDeltaLists] } :
            n \in 0..MaxGroups }

\* The caller passes no expected CRC, the CRC of the data, or another one.
ExpectedCrcs(data) ==
    {None, Some(LibCrc32(data)), Some((LibCrc32(data) + 1) % 65536)}

----------------------------------------------------------------------------
(* Unlit mesh (graphics/model.rs, ModelUnlit): the triangle index decoder   *)
(* decode_indices and merge.  mesh is the operation in progress: its input, *)
(* its position (pc), its locals and the fields of the mesh it builds.      *)

get_smart_1_or_2s(buffer, pos) ==
    IF pos >= Len(buffer) THEN ReadFail
    ELSE IF buffer[pos + 1] < 128 THEN ReadOk(buffer[pos + 1] - 64, pos + 1)
    ELSE IF pos + 2 > Len(buffer) THEN ReadFail
    ELSE ReadOk(g2(buffer, pos) - 49152, pos + 2)

\* The cast `as u16`.
AsU16(v) == v % 65536

Max2(x, y) == IF x > y THEN x ELSE y

\* ModelMergeVertices with room for n vertices.
NewVertices(n) ==
    [vertex_count |-> 0,
     vertex_x |-> [k \in 1..n |-> 0], vertex_y |-> [k \in 1..n |-> 0],
     vertex_z |-> [k \in 1..n |-> 0],
     vertex_model_index_flags |-> [k \in 1..n |-> 0],
     vertex_skins |-> [k \in 1..n |-> 0]]

MeshIdle ==
    [pc |-> "idle", op |-> "none",
     index_buf |-> <<>>, index_type_buf |-> <<>>, index_pos |-> 0, type_pos |-> 0,
     a |-> 0, b |-> 0, c |-> 0, last_index |-> 0, used |-> 0, i |-> 0,
     models |-> <<>>, index |-> 0, t |-> 0, vertices |-> NewVertices(0),
     vertex_count |-> 0, triangle_count |-> 0, used_vertex_count |-> 0,
     vertex_x |-> <<>>, vertex_y |-> <<>>, vertex_z |-> <<>>,
     triangle_a |-> <<>>, triangle_b |-> <<>>, triangle_c |-> <<>>,
     copied |-> FALSE, priority |-> 0, triangle_priority |-> None,
     triangle_render_type |-> None, triangle_transparency |-> None,
     triangle_material |-> None, triangle_texture_coords |-> None,
     triangle_skins |-> None, tex_coord_count |-> 0,
     textured_triangle_count |-> 0, texture_props |-> None]

MeshPanic(m) == [m EXCEPT !.pc = "panic"]

\* decode_indices is called on a mesh whose triangle arrays decode_v0 has
\* allocated: a, b, c, last_index start at 0, used_vertex_count at -1.  The
\* two buffers hold the bytes of the triangles decoded so far; those of the
\* next triangle are added when the loop gets to it.
MeshStartDecode(triangle_count) ==
    [MeshIdle EXCEPT !.pc = "indices", !.op = "decode",
                     !.used = -1, !.triangle_count = triangle_count,
                     !.triangle_a = [k \in 1..triangle_count |-> 0],
                     !.triangle_b = [k \in 1..triangle_count |-> 0],
                     !.triangle_c = [k \in 1..triangle_count |-> 0]]

\* The end of a match arm: the locals, the triangle stored at i and the
\* running used_vertex_count.
StoreTriangle(m, a, b, c, stored_b, used, pos) ==
    [m EXCEPT !.a = a, !.b = b, !.c = c, !.last_index = c,
              !.triangle_a[m.i + 1] = AsU16(a),
              !.triangle_b[m.i + 1] = AsU16(stored_b),
              !.triangle_c[m.i + 1] = AsU16(c),
              !.used = used, !.index_pos = pos,
              !.type_pos = m.type_pos + 1, !.i = m.i + 1]

\* The arm `_ => {}`: the triangle is left as allocated.
UnknownIndexType(m) == [m EXCEPT !.type_pos = m.type_pos + 1, !.i = m.i + 1]

\* One iteration of the loop of decode_indices.
decode_triangle(m) ==
    IF m.type_pos >= Len(m.index_type_buf) THEN MeshPanic(m)
    ELSE
    LET index_type == g1(m.index_type_buf, m.type_pos)
        r1 == get_smart_1_or_2s(m.index_buf, m.index_pos)
    IN  CASE index_type = 1 ->
               IF ~r1.ok THEN MeshPanic(m)
               ELSE LET r2 == get_smart_1_or_2s(m.index_buf, r1.pos)
                    IN  IF ~r2.ok THEN MeshPanic(m)
                        ELSE LET r3 == get_smart_1_or_2s(m.index_buf, r2.pos)
                                 a == r1.val + m.last_index
                                 b == r2.val + a
                                 c == r3.val + b
                             IN  IF ~r3.ok THEN MeshPanic(m)
                                 ELSE StoreTriangle(m, a, b, c, b,
                                        Max2(c, Max2(b, Max2(a, m.used))), r3.pos)
          [] index_type = 2 ->
               IF ~r1.ok THEN MeshPanic(m)
               ELSE LET c == r1.val + m.last_index
                    IN  StoreTriangle(m, m.a, m.c, c, m.c, Max2(c, m.used), r1.pos)
          [] index_type = 3 ->
               IF ~r1.ok THEN MeshPanic(m)
               ELSE LET c == r1.val + m.last_index
                    IN  StoreTriangle(m, m.c, m.b, c, m.b, Max2(c, m.used), r1.pos)
          [] index_type = 4 ->
               IF ~r1.ok THEN MeshPanic(m)
               ELSE LET c == r1.val + m.last_index
                    IN  StoreTriangle(m, m.b, m.a, c, m.a, Max2(c, m.used), r1.pos)
          [] OTHER -> UnknownIndexType(m)

\* After the loop: `used_vertex_count += 1` and the cast to u16.
decode_indices_finish(m) ==
    [m EXCEPT !.pc = "done", !.used = m.used + 1,
              !.used_vertex_count = AsU16(m.used + 1)]

\* `flags |= model_index_flag`.
BitOr(flags, flag) == IF (flags \div flag) % 2 = 1 THEN flags ELSE flags + flag

\* Vertex i of the merged vertices is at the position of src_index in model.
SamePosition(vertices, i, model, src_index) ==
    /\ At(vertices.vertex_x, i) = At(model.vertex_x, src_index)
    /\ At(vertices.vertex_y, i) = At(model.vertex_y, src_index)
    /\ At(vertices.vertex_z, i) = At(model.vertex_z, src_index)

\* Variant: every source vertex is appended.
copy_vertex_append(vertices, model, src_index, model_index_flag) ==
    LET dst_index == vertices.vertex_count
    IN  IF src_index >= Len(model.vertex_x) \/ dst_index >= Len(vertices.vertex_x)
        THEN [panic |-> TRUE, vertices |-> vertices, index |-> 0]
        ELSE [panic |-> FALSE, index |-> dst_index,
              vertices |-> [vertices EXCEPT
                 !.vertex_x[dst_index + 1] = At(model.vertex_x, src_index),
                 !.vertex_y[dst_index + 1] = At(model.vertex_y, src_index),
                 !.vertex_z[dst_index + 1] = At(model.vertex_z, src_index),
                 !.vertex_model_index_flags[dst_index + 1] = model_index_flag,
                 !.vertex_count = dst_index + 1]]

\* copy_vertex: index is the returned u16, vertices the merged vertices
\* afterwards.
copy_vertex(vertices, model, src_index, model_index_flag) ==
    IF src_index >= Len(model.vertex_x)
    THEN [panic |-> TRUE, vertices |-> vertices, index |-> 0]
    ELSE
    LET found == {i \in 0..(vertices.vertex_count - 1) :
                     SamePosition(vertices, i, model, src_index)}
        first == CHOOSE i \in found : \A j \in found : i <= j
        dst_index == vertices.vertex_count
    IN  IF found # {}
        THEN [panic |-> FALSE, index |-> first,
              vertices |-> [vertices EXCEPT
                 !.vertex_model_index_flags[first + 1] = BitOr(@, model_index_flag)]]
        ELSE IF dst_index >= Len(vertices.vertex_x)
        THEN [panic |-> TRUE, vertices |-> vertices, index |-> 0]
        ELSE [panic |-> FALSE, index |-> dst_index,
              vertices |-> [vertices EXCEPT
                 !.vertex_x[dst_index + 1] = At(model.vertex_x, src_index),
                 !.vertex_y[dst_index + 1] = At(model.vertex_y, src_index),
                 !.vertex_z[dst_index + 1] = At(model.vertex_z, src_index),
                 !.vertex_model_index_flags[dst_index + 1] = model_index_flag,
                 !.vertex_skins[dst_index + 1] =
                     IF IsSome(model.vertex_skins)
                     THEN At(Unwrap(model.vertex_skins), src_index) ELSE -1,
                 !.vertex_count = dst_index + 1]]

RECURSIVE SumOver(_, _)
SumOver(models, field) ==
    IF Len(models) = 0 THEN 0
    ELSE SumOver(SubSeq(models, 1, Len(models) - 1), field)
            + models[Len(models)][field]

\* merge(models) is called.
MeshStartMerge(models) == [MeshIdle EXCEPT !.pc = "merge", !.op = "merge", !.models = models]

\* `has |= model.<field>.is_some()` over the models.
AnyHas(models, field) == \E i \in 1..Len(models) : IsSome(models[i][field])

\* Variant: the priority array is allocated when a model has one or the
\* priorities differ.
HasPriority_or_array(models) ==
    \/ AnyHas(models, "triangle_priority")
    \/ \E i \in 1..Len(models) : models[i].priority # models[1].priority

\* has_priority: `priority` is the first model's, and a model whose priority
\* differs from it sets the flag.
HasPriority(models) ==
    \E i \in 1..Len(models) : models[i].priority # models[1].priority

\* `if has { Some(vec![default; triangle_count]) } else { None }`.
AllocIf(has, default, triangle_count) ==
    IF has THEN Some([k \in 1..triangle_count |-> default]) ELSE None

\* merge up to the triangle loop: the totals, the flags and the allocations.
merge_start(m) ==
    LET vertex_count == SumOver(m.models, "vertex_count")
        triangle_count == SumOver(m.models, "triangle_count")
    IN  [m EXCEPT !.pc = "merge_copy", !.index = 0, !.t = 0, !.copied = FALSE,
                  !.vertices = NewVertices(vertex_count),
                  !.triangle_a = [k \in 1..triangle_count |-> 0],
                  !.triangle_b = [k \in 1..triangle_count |-> 0],
                  !.triangle_c = [k \in 1..triangle_count |-> 0],
                  !.priority = IF Len(m.models) = 0 THEN 0 ELSE m.models[1].priority,
                  !.triangle_priority =
                      AllocIf(HasPriority(m.models), 0, triangle_count),
                  !.triangle_render_type =
                      AllocIf(AnyHas(m.models, "triangle_render_type"), 0, triangle_count),
                  !.triangle_transparency =
                      AllocIf(AnyHas(m.models, "triangle_transparency"), 0, triangle_count),
                  !.triangle_material =
                      AllocIf(AnyHas(m.models, "triangle_material"), -1, triangle_count),
                  !.triangle_texture_coords =
                      AllocIf(AnyHas(m.models, "triangle_texture_coords"), -1,
                              triangle_count),
                  !.triangle_skins =
                      AllocIf(AnyHas(m.models, "triangle_skins"), -1, triangle_count),
                  !.textured_triangle_count =
                      SumOver(m.models, "textured_triangle_count"),
                  !.triangle_count = 0]

\* dst with the entries start.. replaced by vals.
Overlay(dst, start, vals) ==
    [k \in 1..Len(dst) |->
        IF k - start \in 1..Len(vals) THEN vals[k - start] ELSE dst[k]]

\* copy_priorities: the model's array, or its single priority for each of
\* its triangles.
copy_priorities(start_triangle_count, dst_priority, model) ==
    IF IsNone(dst_priority) THEN dst_priority
    ELSE Some(Overlay(Unwrap(dst_priority), start_triangle_count,
                 [t \in 1..model.triangle_count |->
                     IF IsSome(model.triangle_priority)
                     THEN Unwrap(model.triangle_priority)[t] ELSE model.priority]))

\* copy_render_types, copy_transparencies, copy_materials and
\* copy_triangle_skins: the model's array, when both are there.
copy_optional(start_triangle_count, dst, model, field) ==
    IF IsNone(dst) \/ IsNone(model[field]) THEN dst
    ELSE Some(Overlay(Unwrap(dst), start_triangle_count,
                 [t \in 1..model.triangle_count |-> Unwrap(model[field])[t]]))

\* The five copies at the head of an iteration of the first loop.
merge_copy_attributes(m) ==
    LET model == At(m.models, m.index)
        start == m.triangle_count
    IN  [m EXCEPT !.copied = TRUE,
            !.triangle_priority = copy_priorities(start, @, model),
            !.triangle_render_type = copy_optional(start, @, model, "triangle_render_type"),
            !.triangle_transparency =
                copy_optional(start, @, model, "triangle_transparency"),
            !.triangle_material = copy_optional(start, @, model, "triangle_material"),
            !.triangle_skins = copy_optional(start, @, model, "triangle_skins")]

\* One iteration of the inner loop of merge: triangle t of models[index].
merge_triangle(m) ==
    LET model == At(m.models, m.index)
        index_flag == 2 ^ m.index
        new_t == m.triangle_count
        ca == copy_vertex(m.vertices, model, At(model.triangle_a, m.t), index_flag)
    IN  IF ca.panic THEN MeshPanic(m)
        ELSE LET cb == copy_vertex(ca.vertices, model, At(model.triangle_b, m.t),
                                   index_flag)
             IN  IF cb.panic THEN MeshPanic(m)
                 ELSE LET cc == copy_vertex(cb.vertices, model,
                                            At(model.triangle_c, m.t), index_flag)
                      IN  IF cc.panic THEN MeshPanic(m)
                          ELSE [m EXCEPT !.vertices = cc.vertices,
                                         !.triangle_a[new_t + 1] = ca.index,
                                         !.triangle_b[new_t + 1] = cb.index,
                                         !.triangle_c[new_t + 1] = cc.index,
                                         !.triangle_count = new_t + 1,
                                         !.t = m.t + 1]

\* Between the two loops: used_vertex_count is the number of merged
\* vertices, the merged texture mappings are allocated and the two counters
\* of the second loop start at 0.
merge_materials(m) ==
    LET n == m.textured_triangle_count
    IN  [m EXCEPT !.pc = "merge_textures", !.index = 0,
                  !.used_vertex_count = m.vertices.vertex_count,
                  !.texture_props =
                      IF n > 0
                      THEN Some([render_types |-> [k \in 1..n |-> 0],
                                 mapping_p |-> [k \in 1..n |-> 0],
                                 mapping_m |-> [k \in 1..n |-> 0],
                                 mapping_n |-> [k \in 1..n |-> 0]])
                      ELSE None,
                  !.tex_coord_count = 0, !.textured_triangle_count = 0]

\* copy_texture_coords: the references of the model are written from
\* tex_coord_count on, which advances by the triangles written.
copy_texture_coords(textured_triangle_count, tex_coord_count, dst_coords, model) ==
    IF IsNone(dst_coords)
    THEN [coords |-> dst_coords, tex_coord_count |-> tex_coord_count]
    ELSE IF IsNone(model.triangle_texture_coords)
    THEN [coords |-> dst_coords, tex_coord_count |-> tex_coord_count]
    ELSE [tex_coord_count |-> tex_coord_count + model.triangle_count,
          coords |-> Some(Overlay(Unwrap(dst_coords), tex_coord_count,
              [t \in 1..model.triangle_count |->
                  LET coord == Unwrap(model.triangle_texture_coords)[t]
                  IN  IF coord >= 0 /\ coord < 32766
                      THEN textured_triangle_count + coord ELSE coord]))]

\* The loop over the texture mappings of a model from mapping t on: acc
\* holds the merged vertices, the merged mappings and their count.
RECURSIVE MappingLoop(_, _, _, _, _)
MappingLoop(acc, model, src_props, index_flag, t) ==
    IF acc.panic \/ t = model.textured_triangle_count THEN acc
    ELSE IF t >= Len(src_props.render_types) \/ acc.count >= Len(acc.props.render_types)
    THEN [acc EXCEPT !.panic = TRUE]
    ELSE
    LET mapping_type == At(src_props.render_types, t)
        new_t == acc.count
        cp == copy_vertex(acc.vertices, model, At(src_props.mapping_p, t), index_flag)
        cm == copy_vertex(cp.vertices, model, At(src_props.mapping_m, t), index_flag)
        cn == copy_vertex(cm.vertices, model, At(src_props.mapping_n, t), index_flag)
        typed == [acc.props EXCEPT !.render_types[new_t + 1] = mapping_type]
    IN  IF mapping_type = 0
        THEN IF cp.panic \/ cm.panic \/ cn.panic THEN [acc EXCEPT !.panic = TRUE]
             ELSE MappingLoop([acc EXCEPT !.vertices = cn.vertices, !.count = new_t + 1,
                                 !.props = [typed EXCEPT !.mapping_p[new_t + 1] = cp.index,
                                                         !.mapping_m[new_t + 1] = cm.index,
                                                         !.mapping_n[new_t + 1] = cn.index]],
                              model, src_props, index_flag, t + 1)
        ELSE IF mapping_type = 1
        THEN MappingLoop([acc EXCEPT !.count = new_t + 1,
                            !.props = [typed EXCEPT
                               !.mapping_p[new_t + 1] = At(src_props.mapping_p, t),
                               !.mapping_m[new_t + 1] = At(src_props.mapping_m, t),
                               !.mapping_n[new_t + 1] = At(src_props.mapping_n, t)]],
                         model, src_props, index_flag, t + 1)
        ELSE MappingLoop([acc EXCEPT !.count = new_t + 1, !.props = typed],
                         model, src_props, index_flag, t + 1)

\* One iteration of the second loop of merge: models[index].
merge_textures(m) ==
    LET model == At(m.models, m.index)
        cc == copy_texture_coords(m.textured_triangle_count, m.tex_coord_count,
                                  m.triangle_texture_coords, model)
        copied == [m EXCEPT !.triangle_texture_coords = cc.coords,
                            !.tex_coord_count = cc.tex_coord_count,
                            !.index = m.index + 1]
    IN  IF IsNone(m.texture_props) \/ IsNone(model.texture_props) THEN copied
        ELSE LET r == MappingLoop([panic |-> FALSE, vertices |-> m.vertices,
                                   props |-> Unwrap(m.texture_props),
                                   count |-> m.textured_triangle_count],
                                  model, Unwrap(model.texture_props), 2 ^ m.index, 0)
             IN  IF r.panic THEN MeshPanic(m)
                 ELSE [copied EXCEPT !.vertices = r.vertices,
                                     !.texture_props = Some(r.props),
                                     !.textured_triangle_count = r.count]

\* The second loop is over: vertex_count is the number of merged vertices,
\* the merged vertices become the mesh's.
merge_finish(m) ==
    [m EXCEPT !.pc = "done",
              !.vertex_count = m.vertices.vertex_count,
              !.vertex_x = m.vertices.vertex_x,
              !.vertex_y = m.vertices.vertex_y,
              !.vertex_z = m.vertices.vertex_z]

MeshAction(next) ==
    /\ mesh' = next
    /\ UNCHANGED <<ix, lit, cow, req, run>>
    /\ DecodeStoreUnchanged

\* The buffers with the bytes of the next triangle.
NextTriangle(m, triangle) ==
    [m EXCEPT !.index_type_buf = Append(m.index_type_buf, triangle.type),
              !.index_buf = m.index_buf \o triangle.codes]

MeshDecodeTriangle(triangle) ==
    /\ mesh.pc = "indices" /\ mesh.i < mesh.triangle_count
    /\ MeshAction(decode_triangle(NextTriangle(mesh, triangle)))

MeshDecodeFinish ==
    /\ mesh.pc = "indices" /\ mesh.i = mesh.triangle_count
    /\ MeshAction(decode_indices_finish(mesh))

MergeStart ==
    /\ mesh.pc = "merge"
    /\ MeshAction(merge_start(mesh))

\* The head of an iteration of the first loop.
MergeCopyAttributes ==
    /\ mesh.pc = "merge_copy" /\ mesh.index < Len(mesh.models) /\ ~mesh.copied
    /\ MeshAction(merge_copy_attributes(mesh))

MergeCopyTriangle ==
    /\ mesh.pc = "merge_copy" /\ mesh.index < Len(mesh.models) /\ mesh.copied
    /\ mesh.t < At(mesh.models, mesh.index).triangle_count
    /\ MeshAction(merge_triangle(mesh))

\* The inner loop is over for models[index]: the outer loop goes on.
MergeNextModel ==
    /\ mesh.pc = "merge_copy" /\ mesh.index < Len(mesh.models) /\ mesh.copied
    /\ mesh.t = At(mesh.models, mesh.index).triangle_count
    /\ MeshAction([mesh EXCEPT !.index = mesh.index + 1, !.t = 0, !.copied = FALSE])

MergeMaterials ==
    /\ mesh.pc = "merge_copy" /\ mesh.index = Len(mesh.models)
    /\ MeshAction(merge_materials(mesh))

MergeTextures ==
    /\ mesh.pc = "merge_textures" /\ mesh.index < Len(mesh.models)
    /\ MeshAction(merge_textures(mesh))

MergeFinish ==
    /\ mesh.pc = "merge_textures" /\ mesh.index = Len(mesh.models)
    /\ MeshAction(merge_finish(mesh))

----------------------------------------------------------------------------
(* The meshes the mesh operations are run on.                               *)

MaxTriangles == 2

MaxModels == 2

\* Index types: the four the format defines and one it does not.
IndexTypes == {1, 2, 3, 4, 5}

\* Signed smart codes: -1, +1 (one byte) and +16383 (two bytes).
SmartCodes == {<<63>>, <<65>>, <<255, 255>>}

\* The bytes of one triangle: its type and the codes its arm reads.
TriangleInputs ==
    UNION { { [type |-> type, codes |-> Concat(codes)] :
                codes \in [1..(CASE type = 1 -> 3 [] type \in {2, 3, 4} -> 1 [] OTHER -> 0)
                             -> SmartCodes] } :
            type \in IndexTypes }

DecodeStarts == { MeshStartDecode(n) : n \in 0..MaxTriangles }

\* A ModelUnlit with the given vertex positions and triangles.
MakeModel(positions, triangles) ==
    [vertex_count |-> Len(positions), triangle_count |-> Len(triangles),
     vertex_x |-> [k \in 1..Len(positions) |-> positions[k][1]],
     vertex_y |-> [k \in 1..Len(positions) |-> positions[k][2]],
     vertex_z |-> [k \in 1..Len(positions) |-> positions[k][3]],
     triangle_a |-> [k \in 1..Len(triangles) |-> triangles[k][1]],
     triangle_b |-> [k \in 1..Len(triangles) |-> triangles[k][2]],
     triangle_c |-> [k \in 1..Len(triangles) |-> triangles[k][3]],
     vertex_skins |-> None,
     priority |-> 0, triangle_priority |-> None, triangle_render_type |-> None,
     triangle_transparency |-> None, triangle_material |-> None,
     triangle_texture_coords |-> None, triangle_skins |-> None,
     textured_triangle_count |-> 0, texture_props |-> None]

\* The triangle (0, 1, 2) on three positions, and two triangles on three.
OneTriangle == MakeModel(<<<<0, 0, 0>>, <<1, 0, 0>>, <<0, 1, 0>>>>, <<<<0, 1, 2>>>>)

TwoTriangles ==
    MakeModel(<<<<1, 0, 0>>, <<0, 1, 0>>, <<0, 0, 1>>>>, <<<<0, 1, 2>>, <<2, 1, 0>>>>)

\* n texture mappings of render type 0 on the vertices 0, 1 and 2.
MakeTextureProps(n) ==
    Some([render_types |-> [k \in 1..n |-> 0], mapping_p |-> [k \in 1..n |-> 0],
          mapping_m |-> [k \in 1..n |-> 1], mapping_n |-> [k \in 1..n |-> 2]])

\* A triangle; a second one sharing two positions with it; a model with a
\* repeated position; a model without triangles; a model whose only
\* triangle uses its last vertex; models with a priority, with per-triangle
\* priorities, and with texture mappings and references to them.
MergeModels ==
    { MakeModel(<<<<0, 0, 0>>, <<1, 0, 0>>, <<0, 1, 0>>>>, <<<<0, 1, 2>>>>),
      MakeModel(<<<<1, 0, 0>>, <<0, 1, 0>>, <<0, 0, 1>>>>, <<<<0, 1, 2>>, <<2, 1, 0>>>>),
      MakeModel(<<<<0, 0, 0>>, <<0, 0, 0>>, <<1, 0, 0>>>>, <<<<0, 1, 2>>>>),
      MakeModel(<<<<0, 0, 0>>>>, <<>>),
      MakeModel(<<<<0, 0, 0>>, <<1, 0, 0>>, <<0, 1, 0>>, <<0, 0, 1>>>>, <<<<3, 3, 3>>>>),
      [OneTriangle EXCEPT !.priority = 5],
      [OneTriangle EXCEPT !.triangle_priority = Some(<<3>>),
                          !.triangle_transparency = Some(<<9>>)],
      [OneTriangle EXCEPT !.triangle_material = Some(<<7>>),
                          !.triangle_texture_coords = Some(<<1>>),
                          !.textured_triangle_count = 2,
                          !.texture_props = MakeTextureProps(2)],
      [TwoTriangles EXCEPT !.triangle_render_type = Some(<<0, 1>>),
                           !.triangle_material = Some(<<7, -1>>),
                           !.triangle_texture_coords = Some(<<0, -1>>),
                           !.textured_triangle_count = 1,
                           !.texture_props = MakeTextureProps(1)],
      [OneTriangle EXCEPT !.priority = 5,
                          !.triangle_material = Some(<<7>>),
                          !.triangle_texture_coords = Some(<<32766>>),
                          !.triangle_skins = Some(<<4>>)] }

MergeStarts ==
    UNION { { MeshStartMerge(models) : models \in [1..n -> MergeModels] } :
            n \in 0..MaxModels }

----------------------------------------------------------------------------
(* Lit mesh builder (model.rs, ModelLit::from_unlit) and lighting kernel    *)
(* (ModelLit::calc_lit_colours).  lit is the builder: its arguments, its    *)
(* position (pc), its locals and the fields of the mesh it returns.  The    *)
(* texture coordinates are f32 values no step reads back: they are left     *)
(* out.  A 64-bit sort key is the tuple of its bit fields, compared from    *)
(* the highest field down.                                                  *)

\* The casts `as i16` and `as i8`.
AsI16(v) == ((v + 32768) % 65536) - 32768

AsI8(v) == ((v + 128) % 256) - 128

Abs(v) == IF v < 0 THEN -v ELSE v

\* The i32 operator `/` (b # 0): the quotient is truncated toward zero.
TruncDiv(a, b) ==
    IF (a < 0) = (b < 0) THEN Abs(a) \div Abs(b) ELSE -(Abs(a) \div Abs(b))

\* The i32 operator `>>`: an arithmetic shift.
Shr(v, n) == v \div (2 ^ n)

\* The largest r in lo..hi with r * r <= v (lo * lo <= v), by bisection.
RECURSIVE SqrtSearch(_, _, _)
SqrtSearch(v, lo, hi) ==
    IF lo = hi THEN lo
    ELSE LET mid == (lo + hi + 1) \div 2
         IN  IF mid * mid <= v THEN SqrtSearch(v, mid, hi)
             ELSE SqrtSearch(v, lo, mid - 1)

\* `f64::sqrt(v as f64) as i32` for an i32 v >= 0; 46340 is the largest
\* root of an i32.
ISqrt(v) == SqrtSearch(v, 0, 46340)

\* The operators `&` and `|` on non-negative integers.
RECURSIVE BitAnd(_, _)
BitAnd(x, y) ==
    IF x = 0 \/ y = 0 THEN 0
    ELSE (x % 2) * (y % 2) + 2 * BitAnd(x \div 2, y \div 2)

RECURSIVE BitOrAll(_, _)
BitOrAll(x, y) ==
    IF x = 0 THEN y
    ELSE IF y = 0 THEN x
    ELSE Max2(x % 2, y % 2) + 2 * BitOrAll(x \div 2, y \div 2)

clamp_lightness(lightness) ==
    IF lightness < 2 THEN 2 ELSE IF lightness > 126 THEN 126 ELSE lightness

\* Variant: the new lightness is not clamped.
adjust_lightness_unclamped(hsl, lightness) ==
    BitOrAll(BitAnd(hsl, 65408), Shr(BitAnd(hsl, 127) * lightness, 7) % 65536)

adjust_lightness(hsl, lightness) ==
    LET new_lightness == clamp_lightness(Shr(BitAnd(hsl, 127) * lightness, 7))
    IN  BitOrAll(BitAnd(hsl, 65408), new_lightness)

\* `opt.as_ref().map_or(default, |ts| ts[t])`.
MapOr(opt, default, t) == IF IsSome(opt) THEN At(Unwrap(opt), t) ELSE default

\* ModelFlags::ANIMATED_TRANSPARENCY.
ANIMATED_TRANSPARENCY == 256

\* TextureProvider.textures: the `opaque` of each texture, None where the
\* id has no texture.  Textures 4 and 7 are opaque, texture 9 is not.
Textures ==
    <<None, None, None, None, Some(TRUE), None, None, Some(TRUE), None, Some(FALSE)>>

\* MaterialInfo::default().
DefaultInfo ==
    [high_detail |-> FALSE, standard_detail_only |-> FALSE, opaque |-> TRUE,
     effect_id |-> 0, effect_config0 |-> 0]

\* TextureProvider::get_info(id).unwrap_or_default().
get_info(id) ==
    IF IsNone(At(Textures, id)) THEN DefaultInfo
    ELSE [DefaultInfo EXCEPT !.opaque = Unwrap(At(Textures, id))]

hd_textures_enabled == TRUE

LitIdle ==
    [pc |-> "idle", model |-> <<>>, flags |-> 0, ambient |-> 0, contrast |-> 0,
     light |-> <<0, 0, 0>>, i |-> 0,
     is_transparent |-> FALSE, triangle_indices |-> <<>>, sort_keys |-> <<>>,
     vertex_unique_index |-> <<>>, vertex_normals |-> <<>>, triangle_normals |-> <<>>,
     vertex_stream_pos |-> <<>>, normal_x |-> <<>>, normal_y |-> <<>>,
     normal_z |-> <<>>, normal_magnitude |-> <<>>, render_vertex_count |-> 0,
     restamped |-> FALSE,
     triangle_count |-> 0, render_triangle_count |-> 0,
     triangle_render_type |-> <<>>, triangle_colour |-> <<>>,
     triangle_transparency |-> <<>>, triangle_material |-> <<>>,
     triangle_render_a |-> <<>>, triangle_render_b |-> <<>>, triangle_render_c |-> <<>>,
     lightness_a |-> <<>>,
     triangle_colours_a |-> <<>>, triangle_colours_b |-> <<>>,
     triangle_colours_c |-> <<>>]

\* from_unlit is called on `model` with `flags`; vertex_unique_index is
\* allocated with used_vertex_count + 1 zeros.
LitStart(model, flags) ==
    [LitIdle EXCEPT !.pc = "filter", !.model = model, !.flags = flags,
                    !.vertex_unique_index = [k \in 1..(model.used_vertex_count + 1) |-> 0]]

LitPanic(l) == [l EXCEPT !.pc = "panic"]

\* The triangle filter skips triangle t: render type 2, or a material that
\* is standard-detail only.
Filtered(model, t) ==
    LET render_type == MapOr(model.triangle_render_type, 0, t)
        material_id == MapOr(model.triangle_material, -1, t)
        info == get_info(AsU16(material_id))
    IN  \/ render_type = 2
        \/ /\ material_id # -1
           /\ (hd_textures_enabled \/ ~info.high_detail) /\ info.standard_detail_only

\* Variant: only corner a is counted.
BumpCorners_a_only(counts, a, b, c) == SetAt(counts, a, At(counts, a) + 1)

\* The three `vertex_unique_index[...] += 1` of a surviving triangle.
BumpCorners(counts, a, b, c) ==
    LET c1 == SetAt(counts, a, At(counts, a) + 1)
        c2 == SetAt(c1, b, At(c1, b) + 1)
    IN  SetAt(c2, c, At(c2, c) + 1)

\* The filter loop from triangle t on.
RECURSIVE FilterLoop(_, _)
FilterLoop(l, t) ==
    IF t = l.model.triangle_count THEN l
    ELSE IF Filtered(l.model, t) THEN FilterLoop(l, t + 1)
    ELSE LET a == At(l.model.triangle_a, t)
             b == At(l.model.triangle_b, t)
             c == At(l.model.triangle_c, t)
         IN  IF Max2(a, Max2(b, c)) >= Len(l.vertex_unique_index) THEN LitPanic(l)
             ELSE FilterLoop(
                    [l EXCEPT !.triangle_indices = Append(l.triangle_indices, t),
                              !.vertex_unique_index =
                                  BumpCorners(l.vertex_unique_index, a, b, c)],
                    t + 1)

\* The triangle filter and the allocation of the sort keys.
filter_triangles(l) ==
    LET f == FilterLoop(l, 0)
    IN  IF f.pc = "panic" THEN f
        ELSE [f EXCEPT !.pc = "sort",
                       !.triangle_count = Len(f.triangle_indices),
                       !.render_triangle_count = Len(f.triangle_indices),
                       !.sort_keys = [k \in 1..l.model.triangle_count |-> <<0, 0, 0, 0, 0, 0>>]]

\* is_triangle_transparent of source triangle t: its transparency byte is
\* not 0 or its material is not opaque.
IsTriangleTransparent(model, t) ==
    LET texture_id == MapOr(model.triangle_material, -1, t)
        info == get_info(AsU16(texture_id))
        has_info == texture_id # -1 /\ ~(~hd_textures_enabled /\ info.high_detail)
    IN  \/ MapOr(model.triangle_transparency, 0, t) # 0
        \/ has_info /\ ~info.opaque

\* The sort key of source triangle t as the tuple of its fields: bits 49..
\* (priority, a u8), bit 48, bits 40..47 (effect_id, a u8), bits 32..39
\* (effect_config0, a u8), bits 16..31 (texture_id as u16), bits 0..15.
KeyFields(model, flags, t, bit48, low) ==
    LET texture_id0 == MapOr(model.triangle_material, -1, t)
        info == get_info(AsU16(texture_id0))
        dropped == texture_id0 # -1 /\ ~hd_textures_enabled /\ info.high_detail
        texture_id == IF dropped THEN -1 ELSE texture_id0
        has_info == texture_id0 # -1 /\ ~dropped
        is_model_transparent ==
            BitAnd(flags, ANIMATED_TRANSPARENCY) = ANIMATED_TRANSPARENCY
    IN  << IF (is_model_transparent \/ IsTriangleTransparent(model, t))
              /\ IsSome(model.triangle_priority)
           THEN At(Unwrap(model.triangle_priority), t) ELSE 0,
           bit48,
           IF has_info THEN info.effect_id ELSE 0,
           IF has_info THEN info.effect_config0 ELSE 0,
           AsU16(texture_id),
           low >>

\* Variant: bit 48 is never set.
SortKey_no_transparency(model, flags, t, i) ==
    KeyFields(model, flags, t, 0, i % 65536)

\* Variant: the low 16 bits count down.
SortKey_reversed(model, flags, t, i) ==
    KeyFields(model, flags, t, IF IsTriangleTransparent(model, t) THEN 1 ELSE 0,
              65535 - i)

\* The sort key of the i-th surviving triangle, source triangle t.
SortKey(model, flags, t, i) ==
    KeyFields(model, flags, t, IF IsTriangleTransparent(model, t) THEN 1 ELSE 0,
              i % 65536)

\* k1 < k2 as 64-bit integers: the first field that differs decides.
RECURSIVE KeyLess(_, _)
KeyLess(k1, k2) ==
    IF k1 = <<>> THEN FALSE
    ELSE IF Head(k1) # Head(k2) THEN Head(k1) < Head(k2)
    ELSE KeyLess(Tail(k1), Tail(k2))

\* The sort-key loop from survivor i on.
RECURSIVE SortKeysLoop(_, _)
SortKeysLoop(l, i) ==
    IF i = l.triangle_count THEN l
    ELSE LET t == At(l.triangle_indices, i)
         IN  SortKeysLoop(
               [l EXCEPT !.sort_keys = SetAt(l.sort_keys, t, SortKey(l.model, l.flags, t, i)),
                         !.is_transparent =
                             l.is_transparent \/ IsTriangleTransparent(l.model, t)],
               i + 1)

\* x is put behind every element of `sorted` whose key is not greater.
RECURSIVE InsertByKey(_, _, _)
InsertByKey(sorted, x, keys) ==
    IF sorted = <<>> THEN <<x>>
    ELSE IF KeyLess(At(keys, x), At(keys, Head(sorted))) THEN <<x>> \o sorted
    ELSE <<Head(sorted)>> \o InsertByKey(Tail(sorted), x, keys)

\* slice::sort_by_key (a stable sort) of triangle indices by sort_keys.
RECURSIVE sort_by_key(_, _)
sort_by_key(indices, keys) ==
    IF indices = <<>> THEN <<>>
    ELSE InsertByKey(sort_by_key(SubSeq(indices, 1, Len(indices) - 1), keys),
                     indices[Len(indices)], keys)

\* The sort keys, the sort and the allocation of the render arrays.
sort_triangles(l) ==
    LET k == SortKeysLoop(l, 0)
        zeros(n) == [j \in 1..n |-> 0]
    IN  [k EXCEPT !.pc = "prefix",
                  !.triangle_indices = sort_by_key(k.triangle_indices, k.sort_keys),
                  !.vertex_stream_pos = zeros(k.triangle_count * 3),
                  !.normal_x = zeros(k.triangle_count * 3),
                  !.normal_y = zeros(k.triangle_count * 3),
                  !.normal_z = zeros(k.triangle_count * 3),
                  !.normal_magnitude = zeros(k.triangle_count * 3),
                  !.triangle_render_type = zeros(k.triangle_count),
                  !.triangle_colour = zeros(k.triangle_count),
                  !.triangle_transparency = zeros(k.triangle_count),
                  !.triangle_material = zeros(k.triangle_count),
                  !.triangle_render_a = zeros(k.triangle_count),
                  !.triangle_render_b = zeros(k.triangle_count),
                  !.triangle_render_c = zeros(k.triangle_count)]

\* The sum of the first n elements.
RECURSIVE SumFirst(_, _)
SumFirst(s, n) == IF n = 0 THEN 0 ELSE s[n] + SumFirst(s, n - 1)

\* Variant: each entry includes its own count.
PrefixSum_inclusive(counts, used_vertex_count) ==
    [k \in 1..Len(counts) |->
        IF k <= used_vertex_count THEN SumFirst(counts, k)
        ELSE SumFirst(counts, used_vertex_count)]

\* The counts become an exclusive prefix sum, the total at
\* used_vertex_count.
PrefixSum(counts, used_vertex_count) ==
    [k \in 1..Len(counts) |->
        IF k <= used_vertex_count THEN SumFirst(counts, k - 1)
        ELSE SumFirst(counts, used_vertex_count)]

prefix_sum(l) ==
    [l EXCEPT !.pc = "normals",
              !.vertex_unique_index =
                  PrefixSum(l.vertex_unique_index, l.model.used_vertex_count)]

\* The loop that halves a face normal until no component exceeds 8192.
RECURSIVE Halve(_)
Halve(n) ==
    IF \E k \in 1..3 : n[k] > 8192 \/ n[k] < -8192
    THEN Halve(<<Shr(n[1], 1), Shr(n[2], 1), Shr(n[3], 1)>>)
    ELSE n

\* The face normal of source triangle t, scaled to length 256.
FaceNormal(model, t) ==
    LET a == At(model.triangle_a, t)
        b == At(model.triangle_b, t)
        c == At(model.triangle_c, t)
        delta_x0 == At(model.vertex_x, b) - At(model.vertex_x, a)
        delta_y0 == At(model.vertex_y, b) - At(model.vertex_y, a)
        delta_z0 == At(model.vertex_z, b) - At(model.vertex_z, a)
        delta_x1 == At(model.vertex_x, c) - At(model.vertex_x, a)
        delta_y1 == At(model.vertex_y, c) - At(model.vertex_y, a)
        delta_z1 == At(model.vertex_z, c) - At(model.vertex_z, a)
        n == Halve(<<delta_y0 * delta_z1 - delta_y1 * delta_z0,
                     delta_z0 * delta_x1 - delta_z1 * delta_x0,
                     delta_x0 * delta_y1 - delta_x1 * delta_y0>>)
        sqrt == ISqrt(n[1] * n[1] + n[2] * n[2] + n[3] * n[3])
        nmag == IF sqrt <= 0 THEN 1 ELSE sqrt
    IN  [x |-> TruncDiv(n[1] * 256, nmag), y |-> TruncDiv(n[2] * 256, nmag),
         z |-> TruncDiv(n[3] * 256, nmag)]

\* `normal.x += nx; ...; normal.magnitude += 1` on the accumulator of v.
AddNormal(vertex_normals, v, n) ==
    SetAt(vertex_normals, v,
          [x |-> At(vertex_normals, v).x + n.x, y |-> At(vertex_normals, v).y + n.y,
           z |-> At(vertex_normals, v).z + n.z,
           magnitude |-> At(vertex_normals, v).magnitude + 1])

\* ModelUnlit::calculate_normals from source triangle t on.
RECURSIVE NormalsLoop(_, _)
NormalsLoop(l, t) ==
    IF t = l.model.triangle_count THEN l
    ELSE LET n == FaceNormal(l.model, t)
             render_type == MapOr(l.model.triangle_render_type, 0, t)
             a == At(l.model.triangle_a, t)
             b == At(l.model.triangle_b, t)
             c == At(l.model.triangle_c, t)
         IN  NormalsLoop(
               CASE render_type = 0 ->
                      [l EXCEPT !.vertex_normals =
                          AddNormal(AddNormal(AddNormal(l.vertex_normals, a, n), b, n), c, n)]
                 [] render_type = 1 ->
                      [l EXCEPT !.triangle_normals = SetAt(l.triangle_normals, t, n)]
                 [] OTHER -> l,
               t + 1)

calculate_normals(l) ==
    LET start == [l EXCEPT
            !.vertex_normals = [k \in 1..l.model.used_vertex_count |->
                                  [x |-> 0, y |-> 0, z |-> 0, magnitude |-> 0]],
            !.triangle_normals = [k \in 1..l.model.triangle_count |->
                                    [x |-> 0, y |-> 0, z |-> 0]]]
    IN  [NormalsLoop(start, 0) EXCEPT !.pc = "render", !.i = 0]

\* The first slot of v_start..v_end that holds 0, or 0 (the initial
\* stream_index) when the loop finds none.
FirstFree(vertex_stream_pos, v_start, v_end) ==
    LET free == {v \in v_start..(v_end - 1) : At(vertex_stream_pos, v) = 0}
    IN  IF free = {} THEN 0 ELSE CHOOSE v \in free : \A w \in free : v <= w

\* ModelLit::add_render_vertex for the corner at source vertex
\* vertex_pos_index: the builder afterwards; the returned index is the
\* render_vertex_count before the call.
add_render_vertex(l, vertex_pos_index, normal, normal_magnitude) ==
    LET v_start == At(l.vertex_unique_index, vertex_pos_index)
        v_end == At(l.vertex_unique_index, vertex_pos_index + 1)
        stream_index == FirstFree(l.vertex_stream_pos, v_start, v_end)
        vertex_count == l.render_vertex_count
    IN  [l EXCEPT !.vertex_stream_pos =
                      SetAt(l.vertex_stream_pos, stream_index, AsU16(vertex_count + 1)),
                  !.restamped =
                      l.restamped \/ At(l.vertex_stream_pos, stream_index) # 0,
                  !.normal_x = SetAt(l.normal_x, vertex_count, AsI16(normal.x)),
                  !.normal_y = SetAt(l.normal_y, vertex_count, AsI16(normal.y)),
                  !.normal_z = SetAt(l.normal_z, vertex_count, AsI16(normal.z)),
                  !.normal_magnitude =
                      SetAt(l.normal_magnitude, vertex_count, AsI8(normal_magnitude)),
                  !.render_vertex_count = AsU16(vertex_count + 1)]

\* The body of the render loop for the i-th triangle of the sorted list.
render_triangle(l) ==
    LET i == l.i
        t == At(l.triangle_indices, i)
        a == At(l.model.triangle_a, t)
        b == At(l.model.triangle_b, t)
        c == At(l.model.triangle_c, t)
        render_type == MapOr(l.model.triangle_render_type, 0, t)
        na == IF render_type = 0 THEN At(l.vertex_normals, a) ELSE At(l.triangle_normals, t)
        nb == IF render_type = 0 THEN At(l.vertex_normals, b) ELSE At(l.triangle_normals, t)
        nc == IF render_type = 0 THEN At(l.vertex_normals, c) ELSE At(l.triangle_normals, t)
        la == add_render_vertex(l, a, na, IF render_type = 0 THEN na.magnitude ELSE 0)
        lb == add_render_vertex(la, b, nb, IF render_type = 0 THEN nb.magnitude ELSE 0)
        lc == add_render_vertex(lb, c, nc, IF render_type = 0 THEN nc.magnitude ELSE 0)
        added == IF render_type \in {0, 1}
                 THEN [lc EXCEPT
                         !.triangle_render_a = SetAt(l.triangle_render_a, i, l.render_vertex_count),
                         !.triangle_render_b = SetAt(l.triangle_render_b, i, la.render_vertex_count),
                         !.triangle_render_c = SetAt(l.triangle_render_c, i, lb.render_vertex_count)]
                 ELSE l
    IN  [added EXCEPT
           !.triangle_render_type = SetAt(l.triangle_render_type, i, render_type),
           !.triangle_colour = SetAt(l.triangle_colour, i, At(l.model.triangle_colour, t)),
           !.triangle_transparency =
               SetAt(l.triangle_transparency, i, MapOr(l.model.triangle_transparency, 0, t)),
           !.triangle_material =
               SetAt(l.triangle_material, i, MapOr(l.model.triangle_material, -1, t)),
           !.i = i + 1]

\* The construction of the returned ModelLit.
from_unlit_finish(l, ambient, contrast) ==
    [l EXCEPT !.pc = "built", !.ambient = ambient, !.contrast = contrast]

\* `light_mag * contrast >> 8`.
ScaledLightMag(l, light) ==
    Shr(ISqrt(light[1] * light[1] + light[2] * light[2] + light[3] * light[3])
          * l.contrast, 8)

\* The denominator of a smooth corner at render vertex rv.
SmoothDenominator(l, scaled_light_mag, rv) ==
    scaled_light_mag * At(l.normal_magnitude, rv)

\* The denominator of a flat triangle.
FlatDenominator(scaled_light_mag) == TruncDiv(scaled_light_mag, 2) + scaled_light_mag

\* `light_x * nx + light_z * nz + light_y * ny` at render vertex rv.
LightDot(l, light, rv) ==
    light[1] * At(l.normal_x, rv) + light[3] * At(l.normal_z, rv)
      + light[2] * At(l.normal_y, rv)

\* The render type of triangle t in calc_lit_colours.
LightRenderType(l, t) ==
    IF At(l.triangle_transparency, t) = 255 THEN 2
    ELSE IF At(l.triangle_transparency, t) = 254 THEN 3
    ELSE At(l.triangle_render_type, t)

\* The denominators triangle t divides by, in the order of the divisions.
Denominators(l, scaled_light_mag, t) ==
    CASE LightRenderType(l, t) = 0 ->
           << SmoothDenominator(l, scaled_light_mag, At(l.triangle_render_a, t)),
              SmoothDenominator(l, scaled_light_mag, At(l.triangle_render_b, t)),
              SmoothDenominator(l, scaled_light_mag, At(l.triangle_render_c, t)) >>
      [] LightRenderType(l, t) = 1 -> << FlatDenominator(scaled_light_mag) >>
      [] OTHER -> <<>>

\* The body of the loop of calc_lit_colours for triangle t, no denominator
\* being 0: the three colours and the lightness of corner a.
LightTriangle(l, light, scaled_light_mag, t) ==
    LET render_type == LightRenderType(l, t)
        textured == At(l.triangle_material, t) # -1
        colour == At(l.triangle_colour, t)
        smooth(rv) ==
            TruncDiv(LightDot(l, light, rv),
                     SmoothDenominator(l, scaled_light_mag, rv)) + l.ambient
        flat == TruncDiv(LightDot(l, light, At(l.triangle_render_a, t)),
                         FlatDenominator(scaled_light_mag)) + l.ambient
        shade(lightness) ==
            IF textured THEN clamp_lightness(lightness)
            ELSE adjust_lightness(colour, lightness)
    IN  CASE render_type = 0 ->
               [a |-> shade(smooth(At(l.triangle_render_a, t))),
                b |-> shade(smooth(At(l.triangle_render_b, t))),
                c |-> shade(smooth(At(l.triangle_render_c, t))),
                lightness_a |-> smooth(At(l.triangle_render_a, t))]
          [] render_type = 1 ->
               [a |-> shade(flat), b |-> 0, c |-> -1, lightness_a |-> flat]
          [] render_type = 3 /\ ~textured ->
               [a |-> 128, b |-> 0, c |-> -1, lightness_a |-> 0]
          [] OTHER -> [a |-> 0, b |-> 0, c |-> -2, lightness_a |-> 0]

\* calc_lit_colours from triangle t on: the division by a zero denominator
\* panics.
RECURSIVE LightLoop(_, _, _, _)
LightLoop(l, light, scaled_light_mag, t) ==
    IF t = l.triangle_count THEN [l EXCEPT !.pc = "lit"]
    ELSE IF \E k \in DOMAIN Denominators(l, scaled_light_mag, t) :
                Denominators(l, scaled_light_mag, t)[k] = 0
    THEN [l EXCEPT !.pc = "div_by_zero", !.i = t]
    ELSE LET r == LightTriangle(l, light, scaled_light_mag, t)
         IN  LightLoop([l EXCEPT !.triangle_colours_a = SetAt(l.triangle_colours_a, t, r.a),
                                 !.triangle_colours_b = SetAt(l.triangle_colours_b, t, r.b),
                                 !.triangle_colours_c = SetAt(l.triangle_colours_c, t, r.c),
                                 !.lightness_a = SetAt(l.lightness_a, t, r.lightness_a)],
                       light, scaled_light_mag, t + 1)

calc_lit_colours(l, light) ==
    LET zeros == [k \in 1..l.triangle_count |-> 0]
    IN  LightLoop([l EXCEPT !.light = light, !.lightness_a = zeros,
                            !.triangle_colours_a = zeros, !.triangle_colours_b = zeros,
                            !.triangle_colours_c = zeros],
                  light, ScaledLightMag(l, light), 0)

\* No builder step touches the store, the decoders or the other meshes.
LitAction(next) ==
    /\ lit' = next
    /\ UNCHANGED <<ix, mesh, cow, req, run>>
    /\ DecodeStoreUnchanged

LitFilter ==
    /\ lit.pc = "filter"
    /\ LitAction(filter_triangles(lit))

LitSort ==
    /\ lit.pc = "sort"
    /\ LitAction(sort_triangles(lit))

LitPrefixSum ==
    /\ lit.pc = "prefix"
    /\ LitAction(prefix_sum(lit))

LitNormals ==
    /\ lit.pc = "normals"
    /\ LitAction(calculate_normals(lit))

LitRenderTriangle ==
    /\ lit.pc = "render" /\ lit.i < lit.triangle_count
    /\ LitAction(render_triangle(lit))

LitFinish(ambient, contrast) ==
    /\ lit.pc = "render" /\ lit.i = lit.triangle_count
    /\ LitAction(from_unlit_finish(lit, ambient, contrast))

LitLight(light) ==
    /\ lit.pc = "built"
    /\ LitAction(calc_lit_colours(lit, light))

----------------------------------------------------------------------------
(* The unlit meshes the builder is run on, and the lights.                  *)

MaxLitTriangles == 3

\* Four vertices: the origin and a point on each axis.
LitPositions == <<<<0, 0, 0>>, <<128, 0, 0>>, <<0, 128, 0>>, <<0, 0, 128>>>>

\* Triangles: smooth with the opaque texture 7; smooth, transparent, with
\* texture 4; flat, untextured; hidden; alpha-key (render type 3); smooth
\* and degenerate, untextured; flat with the texture 9 that is not opaque.
LitTriangles ==
    { [abc |-> <<0, 1, 2>>, colour |-> 100, render_type |-> 0, transparency |-> 0,
       priority |-> 0, material |-> 7],
      [abc |-> <<0, 2, 3>>, colour |-> 200, render_type |-> 0, transparency |-> 100,
       priority |-> 3, material |-> 4],
      [abc |-> <<2, 1, 0>>, colour |-> 16129, render_type |-> 1, transparency |-> 0,
       priority |-> 5, material |-> -1],
      [abc |-> <<1, 2, 3>>, colour |-> 300, render_type |-> 2, transparency |-> 0,
       priority |-> 1, material |-> -1],
      [abc |-> <<0, 1, 3>>, colour |-> 400, render_type |-> 3, transparency |-> 0,
       priority |-> 1, material |-> -1],
      [abc |-> <<0, 0, 1>>, colour |-> 16256, render_type |-> 0, transparency |-> 0,
       priority |-> 5, material |-> -1],
      [abc |-> <<1, 2, 3>>, colour |-> 500, render_type |-> 1, transparency |-> 0,
       priority |-> 2, material |-> 9] }

\* The largest element of a sequence of naturals, -1 for the empty one.
RECURSIVE MaxOf(_)
MaxOf(s) == IF s = <<>> THEN -1 ELSE Max2(Head(s), MaxOf(Tail(s)))

\* The ModelUnlit with the given triangles: used_vertex_count is one more
\* than the largest vertex index, as decode_indices and merge leave it.
MakeUnlit(triangles, has_priority) ==
    [vertex_count |-> Len(LitPositions),
     used_vertex_count |->
         1 + MaxOf([k \in 1..Len(triangles) |-> MaxOf(triangles[k].abc)]),
     triangle_count |-> Len(triangles),
     vertex_x |-> [k \in 1..Len(LitPositions) |-> LitPositions[k][1]],
     vertex_y |-> [k \in 1..Len(LitPositions) |-> LitPositions[k][2]],
     vertex_z |-> [k \in 1..Len(LitPositions) |-> LitPositions[k][3]],
     triangle_a |-> [k \in 1..Len(triangles) |-> triangles[k].abc[1]],
     triangle_b |-> [k \in 1..Len(triangles) |-> triangles[k].abc[2]],
     triangle_c |-> [k \in 1..Len(triangles) |-> triangles[k].abc[3]],
     triangle_colour |-> [k \in 1..Len(triangles) |-> triangles[k].colour],
     triangle_render_type |-> Some([k \in 1..Len(triangles) |-> triangles[k].render_type]),
     triangle_transparency |->
         Some([k \in 1..Len(triangles) |-> triangles[k].transparency]),
     triangle_material |-> Some([k \in 1..Len(triangles) |-> triangles[k].material]),
     triangle_priority |->
         IF has_priority THEN Some([k \in 1..Len(triangles) |-> triangles[k].priority])
         ELSE None]

LitModels ==
    UNION { { MakeUnlit(triangles, has_priority) :
                triangles \in [1..n -> LitTriangles], has_priority \in BOOLEAN } :
            n \in 0..MaxLitTriangles }

\* The flags from_unlit is called with.
LitFlags == {0, ANIMATED_TRANSPARENCY}

LitStarts == { LitStart(model, flags) : model \in LitModels, flags \in LitFlags }

\* ambient and contrast (i16); 768 is the contrast of app.rs.
Ambients == {0, 300}

Contrasts == {0, 768}

\* Light vectors: none, one along the x-y plane, the one of app.rs.
Lights == {<<0, 0, 0>>, <<3, 4, 0>>, <<-50, -10, -50>>}

----------------------------------------------------------------------------
(* Lit mesh copies and transforms (model.rs, ModelLit::copy, translate,     *)
(* scale, rotate_y, rotate_y_pos, mirror, replace_colour, replace_material, *)
(* get_center).  cow.heap holds the arrays; a mesh field holds the handle   *)
(* of its array, as an Arc does.  The unlit mesh from_unlit was called on   *)
(* holds the three vertex arrays of the first mesh while it is alive.  The  *)
(* arrays no transform writes are left out.                                 *)

CowFields ==
    {"vertex_x", "vertex_y", "vertex_z", "normal_x", "normal_z",
     "triangle_colour", "triangle_material", "triangle_render_a", "triangle_render_c"}

\* ModelFlags bits.
CHANGED_X == 1
CHANGED_Y == 2
CHANGED_Z == 4
ROTATED == 8
MIRRORED == 16
ANIMATED_POSITION == 32
ANIMATED_COLOUR == 128
ANIMATED_NORMAL == 512
RECOLOURED == 16384
RETEXTURED == 32768
CHANGED_AMBIENT_COLOUR == 1048576

\* bitflags `intersects` and `contains`.
Intersects(flags, mask) == BitAnd(flags, mask) # 0

Contains(flags, mask) == BitAnd(flags, mask) = mask

\* copy clones the array of field f under `flags` (the has_changed_*
\* predicates).
Cloned(flags, f) ==
    CASE f = "vertex_x" -> Intersects(flags, CHANGED_X + ANIMATED_POSITION)
      [] f = "vertex_y" -> Intersects(flags, CHANGED_Y + ANIMATED_POSITION)
      [] f = "vertex_z" -> Intersects(flags, CHANGED_Z + MIRRORED + ANIMATED_POSITION)
      [] f = "triangle_colour" ->
             Intersects(flags, ANIMATED_COLOUR + RECOLOURED + CHANGED_AMBIENT_COLOUR)
      [] f = "triangle_material" -> Intersects(flags, RETEXTURED)
      [] f \in {"triangle_render_a", "triangle_render_c"} -> Intersects(flags, MIRRORED)
      [] f \in {"normal_x", "normal_z"} ->
             \/ Contains(flags, ANIMATED_POSITION + ANIMATED_NORMAL)
             \/ Intersects(flags, ROTATED + MIRRORED)

\* The mesh from_unlit returns: every array behind its own handle.
FirstMesh ==
    [vertex_x |-> 1, vertex_y |-> 2, vertex_z |-> 3, normal_x |-> 4, normal_z |-> 5,
     triangle_colour |-> 6, triangle_material |-> 7,
     triangle_render_a |-> 8, triangle_render_c |-> 9,
     used_vertex_count |-> 2, render_vertex_count |-> 2,
     triangle_count |-> 2, render_triangle_count |-> 2, bounds |-> None]

FirstHeap ==
    << <<1, 2>>, <<3, 4>>, <<5, 6>>, <<256, 0>>, <<0, -256>>,
       <<7, 8>>, <<-1, 4>>, <<0, 1>>, <<1, 0>> >>

NoOp == [op |-> "none", target |-> 0, had_bounds |-> None, writes |-> {}]

CowIdle ==
    [pc |-> "idle", heap |-> <<>>, meshes |-> <<>>, unlit_alive |-> FALSE,
     ops |-> 0, last |-> NoOp]

\* from_unlit has returned the first mesh; unlit_alive tells whether the
\* unlit mesh still holds vertex_x, vertex_y and vertex_z.
CowStart(unlit_alive) ==
    [CowIdle EXCEPT !.pc = "run", !.heap = FirstHeap, !.meshes = <<FirstMesh>>,
                    !.unlit_alive = unlit_alive]

\* Arc::strong_count of handle h.
Holders(c, h) ==
    Cardinality({kf \in (DOMAIN c.meshes) \X CowFields : c.meshes[kf[1]][kf[2]] = h})
      + (IF c.unlit_alive /\ h \in {1, 2, 3} THEN 1 ELSE 0)

\* Variant: the array is handed out however many handles point to it.
GetMutOk_always(c, k, f) == TRUE

\* Arc::get_mut on field f of mesh k is Some.
GetMutOk(c, k, f) == Holders(c, c.meshes[k][f]) = 1

\* The array behind field f of mesh k.
Arr(c, k, f) == c.heap[c.meshes[k][f]]

\* ModelLit::copy(flags) of mesh k: a clone gets a new handle.
RECURSIVE CopyFields(_, _, _, _, _)
CopyFields(heap, src, copy, flags, fields) ==
    IF fields = {} THEN [heap |-> heap, mesh |-> copy]
    ELSE LET f == CHOOSE g \in fields : TRUE
         IN  IF Cloned(flags, f)
             THEN CopyFields(Append(heap, heap[src[f]]),
                             src, [copy EXCEPT ![f] = Len(heap) + 1], flags, fields \ {f})
             ELSE CopyFields(heap, src, [copy EXCEPT ![f] = src[f]], flags, fields \ {f})

copy(c, k, flags) ==
    LET r == CopyFields(c.heap, c.meshes[k], c.meshes[k], flags, CowFields)
    IN  [c EXCEPT !.heap = r.heap, !.meshes = Append(c.meshes, r.mesh)]

\* A transform runs its stages in order.  A stage takes Arc::get_mut of its
\* fields and unwraps them, then writes the new arrays; the unwrap of a
\* shared array panics, the arrays of the earlier stages being written.
RECURSIVE RunStages(_, _, _)
RunStages(c, k, stages) ==
    IF stages = <<>> THEN c
    ELSE LET stage == Head(stages)
         IN  IF \E f \in DOMAIN stage : ~GetMutOk(c, k, f)
             THEN [c EXCEPT !.pc = "panic"]
             ELSE RunStages(
                    [c EXCEPT !.heap = [h \in DOMAIN c.heap |->
                        IF \E f \in DOMAIN stage : c.meshes[k][f] = h
                        THEN stage[CHOOSE f \in DOMAIN stage : c.meshes[k][f] = h]
                        ELSE c.heap[h]]],
                    k, Tail(stages))

\* The first n elements of an array moved by d, scaled by s (`>> 7`),
\* negated, and with `old` replaced by `new`.
Translated(arr, n, d) == [i \in DOMAIN arr |-> IF i <= n THEN arr[i] + d ELSE arr[i]]

Scaled(arr, n, s) == [i \in DOMAIN arr |-> IF i <= n THEN Shr(arr[i] * s, 7) ELSE arr[i]]

Negated(arr, n) == [i \in DOMAIN arr |-> IF i <= n THEN -arr[i] ELSE arr[i]]

Replaced(arr, n, old, new) ==
    [i \in DOMAIN arr |-> IF i <= n /\ arr[i] = old THEN new ELSE arr[i]]

\* SINE and COSINE at 0 and at JAG_90_DEGREES (4096).
SINE(degrees) == IF degrees = 4096 THEN 16384 ELSE 0

COSINE(degrees) == IF degrees = 4096 THEN 0 ELSE 16384

\* x and z rotated: `(x * cos + z * sin) >> 14`, `(z * cos - x * sin) >> 14`.
RotatedX(xs, zs, n, degrees) ==
    [i \in DOMAIN xs |->
        IF i <= n THEN Shr(xs[i] * COSINE(degrees) + zs[i] * SINE(degrees), 14) ELSE xs[i]]

RotatedZ(xs, zs, n, degrees) ==
    [i \in DOMAIN zs |->
        IF i <= n THEN Shr(zs[i] * COSINE(degrees) - xs[i] * SINE(degrees), 14) ELSE zs[i]]

\* The stages of each transform of mesh k.
TranslateStages(c, k, d) ==
    LET n == c.meshes[k].used_vertex_count
    IN  (IF d[1] # 0 THEN <<[vertex_x |-> Translated(Arr(c, k, "vertex_x"), n, d[1])]>>
         ELSE <<>>)
        \o (IF d[2] # 0 THEN <<[vertex_y |-> Translated(Arr(c, k, "vertex_y"), n, d[2])]>>
            ELSE <<>>)
        \o (IF d[3] # 0 THEN <<[vertex_z |-> Translated(Arr(c, k, "vertex_z"), n, d[3])]>>
            ELSE <<>>)

ScaleStages(c, k, s) ==
    LET n == c.meshes[k].used_vertex_count
    IN  (IF s[1] # 128 THEN <<[vertex_x |-> Scaled(Arr(c, k, "vertex_x"), n, s[1])]>>
         ELSE <<>>)
        \o (IF s[2] # 128 THEN <<[vertex_y |-> Scaled(Arr(c, k, "vertex_y"), n, s[2])]>>
            ELSE <<>>)
        \o (IF s[3] # 128 THEN <<[vertex_z |-> Scaled(Arr(c, k, "vertex_z"), n, s[3])]>>
            ELSE <<>>)

RotateYPosStages(c, k, degrees) ==
    << [vertex_x |-> RotatedX(Arr(c, k, "vertex_x"), Arr(c, k, "vertex_z"),
                              c.meshes[k].used_vertex_count, degrees),
        vertex_z |-> RotatedZ(Arr(c, k, "vertex_x"), Arr(c, k, "vertex_z"),
                              c.meshes[k].used_vertex_count, degrees)] >>

RotateYStages(c, k, degrees) ==
    RotateYPosStages(c, k, degrees)
    \o << [normal_x |-> [i \in DOMAIN Arr(c, k, "normal_x") |->
                AsI16(RotatedX(Arr(c, k, "normal_x"), Arr(c, k, "normal_z"),
                               c.meshes[k].render_vertex_count, degrees)[i])],
           normal_z |-> [i \in DOMAIN Arr(c, k, "normal_z") |->
                AsI16(RotatedZ(Arr(c, k, "normal_x"), Arr(c, k, "normal_z"),
                               c.meshes[k].render_vertex_count, degrees)[i])]] >>

MirrorStages(c, k) ==
    LET n == c.meshes[k].triangle_count
        a == Arr(c, k, "triangle_render_a")
        cc == Arr(c, k, "triangle_render_c")
    IN  << [vertex_z |-> Negated(Arr(c, k, "vertex_z"), c.meshes[k].used_vertex_count)],
           [normal_z |-> Negated(Arr(c, k, "normal_z"), c.meshes[k].render_vertex_count)],
           [triangle_render_a |-> [i \in DOMAIN a |-> IF i <= n THEN cc[i] ELSE a[i]],
            triangle_render_c |-> [i \in DOMAIN cc |-> IF i <= n THEN a[i] ELSE cc[i]]] >>

ReplaceStages(c, k, f, old, new) ==
    << [g \in {f} |-> Replaced(Arr(c, k, f), c.meshes[k].render_triangle_count, old, new)] >>


MinIn(s) == CHOOSE v \in s : \A w \in s : v <= w

MaxIn(s) == CHOOSE v \in s : \A w \in s : v >= w

\* `(f64::sqrt(length as f64) + 0.99) as i32`: the root rounded down, plus
\* one when the root is at least 0.01 above it.
Radius(length) ==
    LET root == CHOOSE r \in 0..length : r * r <= length /\ (r + 1) * (r + 1) > length
    IN  IF (100 * root + 1) * (100 * root + 1) <= 10000 * length THEN root + 1 ELSE root

\* ModelLit::calculate_bounds: the bounding box of the used vertices (all
\* zero when there is none) and the radii of the largest x-z and x-y-z
\* lengths.
calculate_bounds(c, k) ==
    LET n == c.meshes[k].used_vertex_count
        of(f) == {Arr(c, k, f)[i] : i \in 1..n}
        xz(i) == Arr(c, k, "vertex_x")[i] * Arr(c, k, "vertex_x")[i]
                   + Arr(c, k, "vertex_z")[i] * Arr(c, k, "vertex_z")[i]
        xyz(i) == xz(i) + Arr(c, k, "vertex_y")[i] * Arr(c, k, "vertex_y")[i]
    IN  IF n = 0
        THEN [min_x |-> 0, min_y |-> 0, min_z |-> 0, max_x |-> 0, max_y |-> 0, max_z |-> 0,
              xz_radius |-> Radius(0), xyz_radius |-> Radius(0)]
        ELSE [min_x |-> MinIn(of("vertex_x")), min_y |-> MinIn(of("vertex_y")),
              min_z |-> MinIn(of("vertex_z")), max_x |-> MaxIn(of("vertex_x")),
              max_y |-> MaxIn(of("vertex_y")), max_z |-> MaxIn(of("vertex_z")),
              xz_radius |-> Radius(MaxIn({0} \cup {xz(i) : i \in 1..n})),
              xyz_radius |-> Radius(MaxIn({0} \cup {xyz(i) : i \in 1..n}))]

\* Variant: no transform ends with `self.bounds = None`.
ClearsBounds_none(op) == FALSE

\* The transforms that end with `self.bounds = None`.
ClearsBounds(op) == op \in {"translate", "scale", "rotate_y", "rotate_y_pos", "mirror"}

\* Variant: a transform leaves the bounds as they are.
Transform_keeps_bounds(c, k, op, stages) ==
    LET r == RunStages(c, k, stages)
    IN  [r EXCEPT !.ops = c.ops + 1,
                  !.last = [op |-> op, target |-> k,
                            had_bounds |-> c.meshes[k].bounds,
                            writes |-> UNION {DOMAIN stages[i] : i \in DOMAIN stages}]]

\* Transform `op` of mesh k: its stages, then the bounds.  last records the
\* call, the bounds the mesh had before it and the fields it takes to write.
Transform(c, k, op, stages) ==
    LET r == RunStages(c, k, stages)
        called == [r EXCEPT !.ops = c.ops + 1,
                            !.last = [op |-> op, target |-> k,
                                      had_bounds |-> c.meshes[k].bounds,
                                      writes |-> UNION {DOMAIN stages[i] : i \in DOMAIN stages}]]
    IN  IF r.pc = "panic" \/ ~ClearsBounds(op) THEN called
        ELSE [called EXCEPT !.meshes[k].bounds = None]

MaxOps == 3

CowAction(next) ==
    /\ cow.pc = "run"
    /\ cow.ops < MaxOps
    /\ cow' = next
    /\ UNCHANGED <<ix, mesh, lit, req, run>>
    /\ DecodeStoreUnchanged

\* `m2 = m.copy(flags)`: bounds are cloned with the mesh.
CowCopy(flags) ==
    /\ Len(cow.meshes) = 1
    /\ CowAction([copy(cow, 1, flags) EXCEPT
                    !.ops = cow.ops + 1,
                    !.last = [op |-> "copy", target |-> 2,
                              had_bounds |-> cow.meshes[1].bounds, writes |-> {}]])

CowTranslate(k, d) ==
    /\ k \in DOMAIN cow.meshes
    /\ CowAction(Transform(cow, k, "translate", TranslateStages(cow, k, d)))

CowScale(k, s) ==
    /\ k \in DOMAIN cow.meshes
    /\ CowAction(Transform(cow, k, "scale", ScaleStages(cow, k, s)))

CowRotateY(k, degrees) ==
    /\ k \in DOMAIN cow.meshes
    /\ CowAction(Transform(cow, k, "rotate_y", RotateYStages(cow, k, degrees)))

CowRotateYPos(k, degrees) ==
    /\ k \in DOMAIN cow.meshes
    /\ CowAction(Transform(cow, k, "rotate_y_pos", RotateYPosStages(cow, k, degrees)))

CowMirror(k) ==
    /\ k \in DOMAIN cow.meshes
    /\ CowAction(Transform(cow, k, "mirror", MirrorStages(cow, k)))

CowReplaceColour(k, old, new) ==
    /\ k \in DOMAIN cow.meshes
    /\ CowAction(Transform(cow, k, "replace_colour",
                           ReplaceStages(cow, k, "triangle_colour", old, new)))

CowReplaceMaterial(k, old, new) ==
    /\ k \in DOMAIN cow.meshes
    /\ CowAction(Transform(cow, k, "replace_material",
                           ReplaceStages(cow, k, "triangle_material", old, new)))

\* get_center: the cached bounds, computed and stored when absent.
CowGetCenter(k) ==
    /\ k \in DOMAIN cow.meshes
    /\ CowAction([cow EXCEPT
                    !.ops = cow.ops + 1,
                    !.last = [op |-> "get_center", target |-> k,
                              had_bounds |-> cow.meshes[k].bounds, writes |-> {}],
                    !.meshes[k].bounds =
                        IF IsSome(cow.meshes[k].bounds) THEN cow.meshes[k].bounds
                        ELSE Some(calculate_bounds(cow, k))])

\* get_xyz_radius: the same cache, read for the radius.
CowGetXyzRadius(k) ==
    /\ k \in DOMAIN cow.meshes
    /\ CowAction([cow EXCEPT
                    !.ops = cow.ops + 1,
                    !.last = [op |-> "get_xyz_radius", target |-> k,
                              had_bounds |-> cow.meshes[k].bounds, writes |-> {}],
                    !.meshes[k].bounds =
                        IF IsSome(cow.meshes[k].bounds) THEN cow.meshes[k].bounds
                        ELSE Some(calculate_bounds(cow, k))])

\* The arguments the transforms are called with.
CopyFlags ==
    {0, CHANGED_X + CHANGED_Y + CHANGED_Z, CHANGED_X, ROTATED, MIRRORED, RECOLOURED, RETEXTURED}

Translations == {<<0, 0, 0>>, <<1, 0, -1>>}

Scales == {<<128, 128, 128>>, <<256, 128, 64>>}

Rotations == {4096}

----------------------------------------------------------------------------
(* One Js5Request, its spawned task and its pollers, step by step (net.rs). *)
(* The task and the pollers share the request through an Arc.  `completed`  *)
(* is an AtomicBool stored with Release and loaded with Acquire, `data` is  *)
(* behind a Mutex: each access is one step, in one total order.             *)

Pollers == {1, 2}

MaxPolls == 2

\* The bytes the fetch resolves with.
ReqPayload == <<7, 9>>

\* Js5RequestDataState.
NotLoaded == [state |-> "NotLoaded", bytes |-> <<>>]

Loading(bytes) == [state |-> "Loading", bytes |-> bytes]

Loaded(bytes) == [state |-> "Loaded", bytes |-> bytes]

PollerIdle == [pc |-> "idle", polls |-> 0, ret |-> None]

ReqIdle ==
    [pc |-> "idle", outcome |-> "none", task |-> 0, completed |-> FALSE,
     data |-> NotLoaded, queued_request_count |-> 0,
     pollers |-> [p \in Pollers |-> PollerIdle]]

\* queue_request has returned: fetch_add, Js5Request::new, the task spawned
\* and waiting for the fetch.
ReqQueued == [ReqIdle EXCEPT !.pc = "run", !.queued_request_count = 1]

\* Variant: the task sets the flag before it stores the data.
TaskSteps_mark_first(outcome) ==
    IF outcome = "ok" THEN <<"mark_complete", "complete_data", "fetch_sub">>
    ELSE <<"mark_complete", "fetch_sub">>

\* What the task does once the fetch has resolved.
TaskSteps(outcome) ==
    IF outcome = "ok" THEN <<"complete_data", "mark_complete", "fetch_sub">>
    ELSE <<"mark_complete", "fetch_sub">>

\* The task is about to do `step`.
TaskAt(step) ==
    /\ req.outcome # "none"
    /\ req.task \in DOMAIN TaskSteps(req.outcome)
    /\ TaskSteps(req.outcome)[req.task] = step

\* Js5Request::get_data under the lock: the value returned and the data
\* state left.
request_get_data(r) ==
    CASE r.data.state = "Loading" /\ r.completed ->
             [ret |-> Some(r.data.bytes), data |-> Loaded(r.data.bytes)]
      [] r.data.state = "Loaded" -> [ret |-> Some(r.data.bytes), data |-> r.data]
      [] OTHER -> [ret |-> None, data |-> r.data]

ReqAction(next) ==
    /\ req.pc = "run"
    /\ req' = next
    /\ UNCHANGED <<ix, mesh, lit, cow, run>>
    /\ DecodeStoreUnchanged

\* The fetch resolves, Ok or Err.
ReqFetchResolved(outcome) ==
    /\ req.outcome = "none"
    /\ ReqAction([req EXCEPT !.outcome = outcome, !.task = 1])

\* complete_data: lock, store Loaded, unlock.
ReqCompleteData ==
    /\ TaskAt("complete_data")
    /\ ReqAction([req EXCEPT !.data = Loaded(ReqPayload), !.task = req.task + 1])

\* mark_complete: store true.
ReqMarkComplete ==
    /\ TaskAt("mark_complete")
    /\ ReqAction([req EXCEPT !.completed = TRUE, !.task = req.task + 1])

\* fetch_sub: the task ends.
ReqFetchSub ==
    /\ TaskAt("fetch_sub")
    /\ ReqAction([req EXCEPT !.queued_request_count = req.queued_request_count - 1,
                             !.task = req.task + 1])

\* A poller loads `completed`, as fetch_group does: false returns None.
ReqIsCompleted(p) ==
    /\ req.pollers[p].pc # "completed"
    /\ req.pollers[p].polls < MaxPolls
    /\ ReqAction([req EXCEPT !.pollers[p] =
                    [pc |-> IF req.completed THEN "completed" ELSE "idle",
                     polls |-> req.pollers[p].polls + 1, ret |-> None]])

\* A poller that has seen completed = true calls get_data.
ReqGetData(p) ==
    /\ req.pollers[p].pc = "completed"
    /\ ReqAction([req EXCEPT !.data = request_get_data(req).data,
                             !.pollers[p].pc = "got",
                             !.pollers[p].ret = request_get_data(req).ret])

----------------------------------------------------------------------------
(* unpack_group applied to one decompressed group (js5.rs, from             *)
(* `if file_count <= 1` on).  The input is a payload followed, for          *)
(* file_count >= 2, by chunks * file_count deltas and the chunk count.      *)

\* p_i32 of a small delta: big-endian two's complement.
W4s(v) == IF v < 0 THEN <<255, 255, 255, 256 + v>> ELSE <<0, 0, 0, v>>

\* The files unpack_group stores, in the order of the listed file ids.
UnpackFiles(decompressed, file_count) ==
    IF file_count <= 1 THEN <<decompressed>> ELSE SplitFiles(decompressed, file_count)

RunIdle == [pc |-> "idle", op |-> "none"]

MaxChunks == 2

SplitFileCounts == {1, 2, 3}

SplitDeltas == {-1, 1, 2}

SplitPayload == <<11, 12, 13, 14, 15, 16, 17, 18>>

\* The deltas of a group: chunks * file_count of them, none for one file.
SplitDeltaLists(file_count) ==
    IF file_count <= 1 THEN {<<>>}
    ELSE UNION {[1..(chunks * file_count) -> SplitDeltas] : chunks \in 1..MaxChunks}

\* The decompressed group with these deltas in its trailer.
SplitInput(file_count, deltas) ==
    IF file_count <= 1 THEN SplitPayload
    ELSE SplitPayload \o Concat([n \in 1..Len(deltas) |-> W4s(deltas[n])])
            \o <<Len(deltas) \div file_count>>

SplitStarts ==
    UNION {{[pc |-> "input", op |-> "unpack", file_count |-> file_count, deltas |-> deltas,
             decompressed |-> SplitInput(file_count, deltas), files |-> <<>>] :
                deltas \in SplitDeltaLists(file_count)} : file_count \in SplitFileCounts}

RunAction(next) ==
    /\ run' = next
    /\ UNCHANGED <<ix, mesh, lit, cow, req>>
    /\ DecodeStoreUnchanged

\* The single file of a group is the decompressed payload.
UnpackSingle ==
    /\ run.pc = "input" /\ run.op = "unpack"
    /\ run.file_count <= 1
    /\ RunAction([run EXCEPT !.pc = "done",
                             !.files = UnpackFiles(run.decompressed, run.file_count)])

\* The files of a group are split; the slicing aborts on a piece that does
\* not fit.
UnpackSplit ==
    /\ run.pc = "input" /\ run.op = "unpack"
    /\ run.file_count >= 2
    /\ RunAction(IF SplitPanics(run.decompressed, run.file_count)
                 THEN [run EXCEPT !.pc = "panic"]
                 ELSE [run EXCEPT !.pc = "done",
                                  !.files = UnpackFiles(run.decompressed, run.file_count)])

----------------------------------------------------------------------------
(* ModelUnlit::decode.  run holds the bytes, the format chosen from their   *)
(* last two bytes and the mesh built.  Of the mesh the model keeps the      *)
(* counts and the coordinate, index, colour and texture render type arrays; *)
(* the streams of the optional arrays are read for their bounds only.       *)

Zeros(n) == [k \in 1..n |-> 0]

\* `if has { offset += count }`.
SizeIf(has, count) == IF has THEN count ELSE 0

\* n bytes can be read from offset.
Readable(data, offset, n) == offset + n <= Len(data)

\* ModelUnlit::new().
NewModel ==
    [vertex_count |-> 0, triangle_count |-> 0, textured_triangle_count |-> 0,
     priority |-> 0, used_vertex_count |-> 0,
     vertex_x |-> <<>>, vertex_y |-> <<>>, vertex_z |-> <<>>,
     triangle_a |-> <<>>, triangle_b |-> <<>>, triangle_c |-> <<>>,
     triangle_colour |-> <<>>, render_types |-> <<>>]

\* The version read by decode.
ModelVersion(data) == 65536 - g2(data, Len(data) - 2)

\* The match of decode on the version.
ModelFormat(version) ==
    CASE version = 3 -> "v1_maya"
      [] version = 2 -> "v0_maya"
      [] version = 1 -> "v1"
      [] OTHER -> "v0"

\* The trailer of decode_v0.
trailer_v0(data) ==
    LET t == Len(data) - 18
    IN  [vertex_count |-> g2(data, t), triangle_count |-> g2(data, t + 2),
         textured_triangle_count |-> g1(data, t + 4),
         has_textures |-> g1(data, t + 5) = 1,
         priority |-> g1(data, t + 6),
         has_priorities |-> g1(data, t + 6) = 255,
         has_transparencies |-> g1(data, t + 7) = 1,
         has_triangle_skins |-> g1(data, t + 8) = 1,
         has_vertex_skins |-> g1(data, t + 9) = 1,
         has_maya_groups |-> FALSE,
         vertex_x_count |-> g2(data, t + 10), vertex_y_count |-> g2(data, t + 12),
         vertex_z_count |-> g2(data, t + 14), index_count |-> g2(data, t + 16),
         vertex_skins_size |-> SizeIf(g1(data, t + 9) = 1, g2(data, t))]

\* The trailer of decode_v0_maya.
trailer_v0_maya(data) ==
    LET t == Len(data) - 23
    IN  [vertex_count |-> g2(data, t), triangle_count |-> g2(data, t + 2),
         textured_triangle_count |-> g1(data, t + 4),
         has_textures |-> g1(data, t + 5) = 1,
         priority |-> g1(data, t + 6),
         has_priorities |-> g1(data, t + 6) = 255,
         has_transparencies |-> g1(data, t + 7) = 1,
         has_triangle_skins |-> g1(data, t + 8) = 1,
         has_vertex_skins |-> g1(data, t + 9) = 1,
         has_maya_groups |-> g1(data, t + 10) = 1,
         vertex_x_count |-> g2(data, t + 11), vertex_y_count |-> g2(data, t + 13),
         vertex_z_count |-> g2(data, t + 15), index_count |-> g2(data, t + 17),
         vertex_skins_size |-> g2(data, t + 19)]

\* The trailer of decode_v1_maya.
trailer_v1_maya(data) ==
    LET t == Len(data) - 26
    IN  [vertex_count |-> g2(data, t), triangle_count |-> g2(data, t + 2),
         textured_triangle_count |-> g1(data, t + 4),
         has_triangle_render_types |-> g1(data, t + 5) % 2 = 1,
         priority |-> g1(data, t + 6),
         has_priorities |-> g1(data, t + 6) = 255,
         has_transparencies |-> g1(data, t + 7) = 1,
         has_triangle_skins |-> g1(data, t + 8) = 1,
         has_textures |-> g1(data, t + 9) = 1,
         has_vertex_skins |-> g1(data, t + 10) = 1,
         has_maya_groups |-> g1(data, t + 11) = 1,
         vertex_x_count |-> g2(data, t + 12), vertex_y_count |-> g2(data, t + 14),
         vertex_z_count |-> g2(data, t + 16), index_count |-> g2(data, t + 18),
         texture_coords_size |-> g2(data, t + 20),
         vertex_skins_size |-> g2(data, t + 22)]

\* The region offsets of decode_v0 and decode_v0_maya, which differ in the
\* size of the vertex skin region only.
offsets_v0(h) ==
    LET index_types == h.vertex_count
        priorities == index_types + h.triangle_count
        triangle_skins == priorities + SizeIf(h.has_priorities, h.triangle_count)
        texture_flags == triangle_skins + SizeIf(h.has_triangle_skins, h.triangle_count)
        vertex_skins == texture_flags + SizeIf(h.has_textures, h.triangle_count)
        transparencies == vertex_skins + h.vertex_skins_size
        indices == transparencies + SizeIf(h.has_transparencies, h.triangle_count)
        colours == indices + h.index_count
        texture_mapping == colours + h.triangle_count * 2
        vertex_x == texture_mapping + h.textured_triangle_count * 6
        vertex_y == vertex_x + h.vertex_x_count
        vertex_z == vertex_y + h.vertex_y_count
    IN  [vertex_flags |-> 0, index_types |-> index_types, priorities |-> priorities,
         triangle_skins |-> triangle_skins, texture_flags |-> texture_flags,
         vertex_skins |-> vertex_skins, transparencies |-> transparencies,
         indices |-> indices, colours |-> colours,
         texture_mapping |-> texture_mapping,
         vertex_x |-> vertex_x, vertex_y |-> vertex_y, vertex_z |-> vertex_z]

\* decode_texture_render_types: the render types and the three counts.
RenderTypes(data, n) == [i \in 1..n |-> g1(data, i - 1)]

CountOf(types, wanted) == Cardinality({i \in 1..Len(types) : types[i] \in wanted})

\* The region offsets of decode_v1_maya.
offsets_v1_maya(h, types) ==
    LET simple == CountOf(types, {0})
        complex == CountOf(types, {1, 2, 3})
        cube == CountOf(types, {2})
        vertex_flags == h.textured_triangle_count
        triangle_render_types == vertex_flags + h.vertex_count
        index_types == triangle_render_types
                         + SizeIf(h.has_triangle_render_types, h.triangle_count)
        priorities == index_types + h.triangle_count
        triangle_skins == priorities + SizeIf(h.has_priorities, h.triangle_count)
        vertex_skins == triangle_skins + SizeIf(h.has_triangle_skins, h.triangle_count)
        transparencies == vertex_skins + h.vertex_skins_size
        indices == transparencies + SizeIf(h.has_transparencies, h.triangle_count)
        textures == indices + h.index_count
        texture_coords == textures + SizeIf(h.has_textures, h.triangle_count * 2)
        colours == texture_coords + h.texture_coords_size
        vertex_x == colours + h.triangle_count * 2
        vertex_y == vertex_x + h.vertex_x_count
        vertex_z == vertex_y + h.vertex_y_count
        simple_textures == vertex_z + h.vertex_z_count
        complex_textures == simple_textures + simple * 6
        texture_scales == complex_textures + complex * 6
        texture_rotations == texture_scales + complex * 6
        texture_directions == texture_rotations + complex * 2
        texture_translations == texture_directions + complex * 2
    IN  [vertex_flags |-> vertex_flags,
         triangle_render_types |-> triangle_render_types,
         index_types |-> index_types, priorities |-> priorities,
         triangle_skins |-> triangle_skins, vertex_skins |-> vertex_skins,
         transparencies |-> transparencies, indices |-> indices,
         textures |-> textures, texture_coords |-> texture_coords,
         colours |-> colours,
         vertex_x |-> vertex_x, vertex_y |-> vertex_y, vertex_z |-> vertex_z,
         simple_textures |-> simple_textures, complex_textures |-> complex_textures,
         texture_translations |-> texture_translations,
         simple |-> simple, complex |-> complex]

\* The first loop of decode_vertices over vertices 0..n-1: the positions of
\* the four buffers and the coordinates stored.
RECURSIVE VertexPositions(_, _, _)
VertexPositions(data, n, o) ==
    IF n = 0
    THEN [ok |-> TRUE, f |-> o.vertex_flags, x |-> o.vertex_x, y |-> o.vertex_y,
          z |-> o.vertex_z, vertex_x |-> <<>>, vertex_y |-> <<>>, vertex_z |-> <<>>]
    ELSE LET s == VertexPositions(data, n - 1, o)
             prev(v) == IF Len(v) = 0 THEN 0 ELSE v[Len(v)]
         IN  IF ~s.ok \/ s.f >= Len(data) THEN [s EXCEPT !.ok = FALSE]
             ELSE LET flags == g1(data, s.f)
                      rx == IF flags % 2 = 1 THEN get_smart_1_or_2s(data, s.x)
                            ELSE ReadOk(0, s.x)
                      ry == IF (flags \div 2) % 2 = 1 THEN get_smart_1_or_2s(data, s.y)
                            ELSE ReadOk(0, s.y)
                      rz == IF (flags \div 4) % 2 = 1 THEN get_smart_1_or_2s(data, s.z)
                            ELSE ReadOk(0, s.z)
                  IN  IF ~rx.ok \/ ~ry.ok \/ ~rz.ok THEN [s EXCEPT !.ok = FALSE]
                      ELSE [ok |-> TRUE, f |-> s.f + 1,
                            x |-> rx.pos, y |-> ry.pos, z |-> rz.pos,
                            vertex_x |-> Append(s.vertex_x, prev(s.vertex_x) + rx.val),
                            vertex_y |-> Append(s.vertex_y, prev(s.vertex_y) + ry.val),
                            vertex_z |-> Append(s.vertex_z, prev(s.vertex_z) + rz.val)]

\* The position of vertex_skins_buf after the maya groups of n vertices, or
\* -1 when a read runs off the end.
RECURSIVE MayaEnd(_, _, _)
MayaEnd(data, pos, n) ==
    IF n = 0 THEN pos
    ELSE LET at == MayaEnd(data, pos, n - 1)
         IN  IF at < 0 \/ at >= Len(data) THEN -1
             ELSE IF at + 1 + 2 * g1(data, at) > Len(data) THEN -1
             ELSE at + 1 + 2 * g1(data, at)

\* The reads of the vertex skins and maya groups go well.
VertexSkinsOk(data, h, o) ==
    LET after == o.vertex_skins + SizeIf(h.has_vertex_skins, h.vertex_count)
    IN  /\ after <= Len(data)
        /\ h.has_maya_groups => MayaEnd(data, after, h.vertex_count) >= 0

\* The loop of decode_indices run to its end on the two regions.
RECURSIVE IndicesLoop(_)
IndicesLoop(m) ==
    IF m.pc = "panic" THEN m
    ELSE IF m.i = m.triangle_count THEN decode_indices_finish(m)
    ELSE IndicesLoop(decode_triangle(m))

decode_indices(data, triangle_count, indices_offset, index_types_offset) ==
    IndicesLoop([MeshStartDecode(triangle_count) EXCEPT
                    !.index_buf = SubSeq(data, indices_offset + 1, Len(data)),
                    !.index_type_buf = SubSeq(data, index_types_offset + 1, Len(data))])

\* The colours read by the first loop of decode_triangles.
Colours(data, n, offset) == [i \in 1..n |-> g2(data, offset + 2 * (i - 1))]

\* The mesh after the allocations and the passes, or the panic of a read
\* past the end; streams_ok stands for the reads of the optional streams.
Decoded(data, h, o, types, streams_ok) ==
    LET v == VertexPositions(data, h.vertex_count, o)
        t == decode_indices(data, h.triangle_count, o.indices, o.index_types)
    IN  IF \/ ~v.ok \/ t.pc = "panic" \/ ~streams_ok
           \/ ~VertexSkinsOk(data, h, o)
           \/ ~Readable(data, o.colours, 2 * h.triangle_count)
        THEN [pc |-> "panic", model |-> NewModel]
        ELSE [pc |-> "done",
              model |->
                [vertex_count |-> AsU16(h.vertex_count),
                 triangle_count |-> AsU16(h.triangle_count),
                 textured_triangle_count |-> AsU16(h.textured_triangle_count),
                 priority |-> IF h.has_priorities THEN 0 ELSE h.priority,
                 used_vertex_count |-> t.used_vertex_count,
                 vertex_x |-> v.vertex_x, vertex_y |-> v.vertex_y,
                 vertex_z |-> v.vertex_z,
                 triangle_a |-> t.triangle_a, triangle_b |-> t.triangle_b,
                 triangle_c |-> t.triangle_c,
                 triangle_colour |-> Colours(data, h.triangle_count, o.colours),
                 render_types |-> types]]

\* The optional streams of decode_triangles and decode_texture_mapping.
StreamsOk_v0(data, h, o) ==
    /\ o.vertex_z <= Len(data)
    /\ h.has_textures => Readable(data, o.texture_flags, h.triangle_count)
    /\ h.has_priorities => Readable(data, o.priorities, h.triangle_count)
    /\ h.has_transparencies => Readable(data, o.transparencies, h.triangle_count)
    /\ h.has_triangle_skins => Readable(data, o.triangle_skins, h.triangle_count)
    /\ Readable(data, o.texture_mapping, 6 * h.textured_triangle_count)

\* The optional streams of decode_triangles_v1 and decode_texture_mapping_v1.
StreamsOk_v1_maya(data, h, o) ==
    /\ o.texture_translations <= Len(data)
    /\ h.has_triangle_render_types
         => Readable(data, o.triangle_render_types, h.triangle_count)
    /\ h.has_priorities => Readable(data, o.priorities, h.triangle_count)
    /\ h.has_transparencies => Readable(data, o.transparencies, h.triangle_count)
    /\ h.has_triangle_skins => Readable(data, o.triangle_skins, h.triangle_count)
    /\ h.has_textures => Readable(data, o.textures, 2 * h.triangle_count)
    /\ (h.has_textures /\ h.textured_triangle_count > 0)
         => Readable(data, o.texture_coords, h.triangle_count)
    /\ Readable(data, o.simple_textures, 6 * o.simple)
    /\ Readable(data, o.complex_textures, 6 * o.complex)

decode_v0(data) ==
    IF Len(data) < 18 THEN [pc |-> "panic", model |-> NewModel]
    ELSE LET h == trailer_v0(data)
             o == offsets_v0(h)
         IN  Decoded(data, h, o, Zeros(h.textured_triangle_count),
                     StreamsOk_v0(data, h, o))

\* decode_v1 declares its buffers, skips to the trailer and returns: the
\* mesh stays as new() made it.
decode_v1(data) ==
    IF Len(data) < 23 THEN [pc |-> "panic", model |-> NewModel]
    ELSE [pc |-> "done", model |-> NewModel]

decode_v0_maya(data) ==
    IF Len(data) < 23 THEN [pc |-> "panic", model |-> NewModel]
    ELSE LET h == trailer_v0_maya(data)
             o == offsets_v0(h)
         IN  Decoded(data, h, o, Zeros(h.textured_triangle_count),
                     StreamsOk_v0(data, h, o))

decode_v1_maya(data) ==
    IF Len(data) < 26 THEN [pc |-> "panic", model |-> NewModel]
    ELSE LET h == trailer_v1_maya(data)
         IN  IF ~Readable(data, 0, h.textured_triangle_count)
             THEN [pc |-> "panic", model |-> NewModel]
             ELSE LET types == RenderTypes(data, h.textured_triangle_count)
                      o == offsets_v1_maya(h, types)
                  IN  Decoded(data, h, o, types, StreamsOk_v1_maya(data, h, o))

\* The bytes the four formats are built from: vertices as a flag byte and
\* the deltas it announces, triangles as an index type and its deltas.
MaxVertices == 2

ModelPriorities == {10, 255}

VertexInputs ==
    { [flags |-> 0, x |-> <<>>, y |-> <<>>, z |-> <<>>],
      [flags |-> 5, x |-> <<65>>, y |-> <<>>, z |-> <<255, 255>>] }

ModelTriangleInputs ==
    { [type |-> 1, codes |-> <<65, 65, 65>>], [type |-> 2, codes |-> <<65>>] }

SeqsUpTo(S, n) == UNION { [1..k -> S] : k \in 0..n }

Field(records, name) == Concat([i \in 1..Len(records) |-> records[i][name]])

Bytes(n, b) == [i \in 1..n |-> b]

\* The regions of a mesh in the order of the version 0 and 2 formats.
RegionsV0(vs, ts, textured, priority) ==
    [i \in 1..Len(vs) |-> vs[i].flags] \o [i \in 1..Len(ts) |-> ts[i].type]
      \o Bytes(SizeIf(priority = 255, Len(ts)), 1)
      \o Field(ts, "codes") \o Bytes(2 * Len(ts), 7) \o Bytes(6 * textured, 0)
      \o Field(vs, "x") \o Field(vs, "y") \o Field(vs, "z")

\* The counts every trailer starts with and the stream sizes.
TrailerHead(vs, ts, textured) == W2(Len(vs)) \o W2(Len(ts)) \o <<textured>>

TrailerSizes(vs, ts) ==
    W2(Len(Field(vs, "x"))) \o W2(Len(Field(vs, "y"))) \o W2(Len(Field(vs, "z")))
      \o W2(Len(Field(ts, "codes")))

EncodeV0(vs, ts, textured, priority) ==
    RegionsV0(vs, ts, textured, priority) \o TrailerHead(vs, ts, textured)
      \o <<0, priority, 0, 0, 0>> \o TrailerSizes(vs, ts)

\* version_bytes is 65536 - 2 for the version 2 format and 65536 - 1 for
\* the version 1 format, whose trailer has the same size.
EncodeV0Maya(vs, ts, textured, priority, version_bytes) ==
    RegionsV0(vs, ts, textured, priority) \o TrailerHead(vs, ts, textured)
      \o <<0, priority, 0, 0, 0, 0>> \o TrailerSizes(vs, ts) \o W2(0)
      \o version_bytes

EncodeV1Maya(vs, ts, textured, priority) ==
    Bytes(textured, 0)
      \o [i \in 1..Len(vs) |-> vs[i].flags] \o [i \in 1..Len(ts) |-> ts[i].type]
      \o Bytes(SizeIf(priority = 255, Len(ts)), 1)
      \o Field(ts, "codes") \o Bytes(2 * Len(ts), 7)
      \o Field(vs, "x") \o Field(vs, "y") \o Field(vs, "z")
      \o Bytes(6 * textured, 0)
      \o TrailerHead(vs, ts, textured) \o <<0, priority, 0, 0, 0, 0, 0>>
      \o TrailerSizes(vs, ts) \o W2(0) \o W2(0) \o <<255, 253>>

ModelInputs ==
    UNION { { EncodeV0(vs, ts, textured, priority),
              EncodeV0Maya(vs, ts, textured, priority, <<255, 255>>),
              EncodeV0Maya(vs, ts, textured, priority, <<255, 254>>),
              EncodeV1Maya(vs, ts, textured, priority) } :
            <<vs, ts, textured, priority>> \in
                SeqsUpTo(VertexInputs, MaxVertices)
                  \X SeqsUpTo(ModelTriangleInputs, MaxTriangles)
                  \X {0, 1} \X ModelPriorities }

ModelStarts ==
    { [pc |-> "input", op |-> "decode", data |-> data, model |-> NewModel] :
        data \in ModelInputs }

\* decode: the version and the match on it.
DecodeVersion ==
    /\ run.pc = "input" /\ run.op = "decode"
    /\ RunAction(IF Len(run.data) < 2 THEN [run EXCEPT !.pc = "panic"]
                 ELSE [run EXCEPT !.pc = ModelFormat(ModelVersion(run.data))])

\* The decoder chosen runs to its end.
DecodeWith(format, result) ==
    /\ run.pc = format /\ run.op = "decode"
    /\ RunAction([run EXCEPT !.pc = result.pc, !.model = result.model])

DecodeV0 == DecodeWith("v0", decode_v0(run.data))

DecodeV1 == DecodeWith("v1", decode_v1(run.data))

DecodeV0Maya == DecodeWith("v0_maya", decode_v0_maya(run.data))

DecodeV1Maya == DecodeWith("v1_maya", decode_v1_maya(run.data))

----------------------------------------------------------------------------

ValidGroups == {g \in 0..(index.group_capacity - 1) : is_group_valid(g)}

Init ==
    /\ discard_packed \in BOOLEAN
    /\ discard_unpacked \in BOOLEAN
    /\ groups = [g \in 0..(index.group_capacity - 1) |-> EmptySlot]
    /\ slot_lock = [g \in 0..(index.group_capacity - 1) |-> 0]
    /\ state_lock = 0
    /\ requests = [g \in ValidGroups |-> None]
    /\ queued_request_count \in {0, MaxQueued}   \* queued by the other archives
    /\ th = [t \in Threads |-> Idle]
    /\ last = NoCall
    /\ served = {}
    /\ ix = IxIdle
    /\ mesh = MeshIdle
    /\ lit = LitIdle
    /\ cow = CowIdle
    /\ req = ReqIdle
    /\ run = RunIdle

Next ==
    \/ \E t \in Threads, a \in GetFileArgs : GetFileInvalid(t, a[1], a[2])
    \/ \E t \in Threads, a \in GetFileArgs : GetFileCall(t, a[1], a[2])
    \/ \E t \in Threads, a \in GetFileArgs : GetFileServe(t, a[1], a[2])
    \/ \E t \in Threads, a \in GetFileArgs : GetFileMiss(t, a[1], a[2])
    \/ \E t \in Threads, g \in IsGroupReadyArgs : IsGroupReadyInvalid(t, g)
    \/ \E t \in Threads, g \in IsGroupReadyArgs : IsGroupReadyCall(t, g)
    \/ \E t \in Threads, g \in IsGroupReadyArgs : IsGroupReadyHit(t, g)
    \/ \E t \in Threads, g \in IsGroupReadyArgs : IsGroupReadyMiss(t, g)
    \/ \E t \in Threads, a \in IsFileReadyArgs : IsFileReadyInvalid(t, a[1], a[2])
    \/ \E t \in Threads, a \in IsFileReadyArgs : IsFileReadyCall(t, a[1], a[2])
    \/ \E t \in Threads, a \in IsFileReadyArgs : IsFileReadyHit(t, a[1], a[2])
    \/ \E t \in Threads, a \in IsFileReadyArgs : IsFileReadyMiss(t, a[1], a[2])
    \/ \E t \in Threads, a \in IsFileReadyArgs : IsFileReadyPanic(t, a[1], a[2])
    \/ \E t \in Threads : FetchAllCall(t)
    \/ \E t \in Threads, i \in 0..(index.group_count - 1) : FetchAllSkip(t, i)
    \/ \E t \in Threads, i \in 0..(index.group_count - 1) : FetchAllMiss(t, i)
    \/ \E t \in Threads : ProviderEnter(t)
    \/ \E t \in Threads : ProviderQueueFull(t)
    \/ \E t \in Threads : ProviderPoll(t)
    \/ \E g \in ValidGroups : TaskOk(g)
    \/ \E g \in ValidGroups : TaskFail(g)
    \/ OtherTasksDone

Spec == Init /\ [][Next]_vars

\* One caller: thread 2 never starts an operation.  The provider's tasks
\* still run beside the caller.
NextSeq == Next /\ th'[2] = th[2]

SpecSeq == Init /\ [][NextSeq]_vars

\* The decoders run on their inputs, one decoder per behaviour; the store
\* is not used.
InitDecode ==
    /\ discard_packed = FALSE
    /\ discard_unpacked = FALSE
    /\ groups = [g \in 0..(index.group_capacity - 1) |-> EmptySlot]
    /\ slot_lock = [g \in 0..(index.group_capacity - 1) |-> 0]
    /\ state_lock = 0
    /\ requests = [g \in ValidGroups |-> None]
    /\ queued_request_count = 0
    /\ th = [t \in Threads |-> Idle]
    /\ last = NoCall
    /\ served = {}
    /\ \/ /\ ix \in UNION { { IxStart(data, expected_crc) :
                                expected_crc \in ExpectedCrcs(data) } :
                            data \in IndexData }
          /\ mesh = MeshIdle
       \/ /\ ix = IxIdle
          /\ mesh \in DecodeStarts \cup MergeStarts
    /\ lit = LitIdle
    /\ cow = CowIdle
    /\ req = ReqIdle
    /\ run = RunIdle

NextDecode ==
    \/ IxCrc
    \/ IxDecompress
    \/ IxHeader
    \/ IxGroupIds
    \/ IxGroupTables
    \/ IxFileCounts
    \/ IxFileIds
    \/ IxTrailer
    \/ \E triangle \in TriangleInputs : MeshDecodeTriangle(triangle)
    \/ MeshDecodeFinish
    \/ MergeStart
    \/ MergeCopyAttributes
    \/ MergeCopyTriangle
    \/ MergeNextModel
    \/ MergeMaterials
    \/ MergeTextures
    \/ MergeFinish

SpecDecode == InitDecode /\ [][NextDecode]_vars

\* The lit mesh builder runs on an unlit mesh, then the lighting kernel on
\* the mesh it returned.
InitLit ==
    /\ discard_packed = FALSE
    /\ discard_unpacked = FALSE
    /\ groups = [g \in 0..(index.group_capacity - 1) |-> EmptySlot]
    /\ slot_lock = [g \in 0..(index.group_capacity - 1) |-> 0]
    /\ state_lock = 0
    /\ requests = [g \in ValidGroups |-> None]
    /\ queued_request_count = 0
    /\ th = [t \in Threads |-> Idle]
    /\ last = NoCall
    /\ served = {}
    /\ ix = IxIdle
    /\ mesh = MeshIdle
    /\ lit \in LitStarts
    /\ cow = CowIdle
    /\ req = ReqIdle
    /\ run = RunIdle

NextLit ==
    \/ LitFilter
    \/ LitSort
    \/ LitPrefixSum
    \/ LitNormals
    \/ LitRenderTriangle
    \/ \E ambient \in Ambients, contrast \in Contrasts : LitFinish(ambient, contrast)
    \/ \E light \in Lights : LitLight(light)

SpecLit == InitLit /\ [][NextLit]_vars

InitCow ==
    /\ discard_packed = FALSE
    /\ discard_unpacked = FALSE
    /\ groups = [g \in 0..(index.group_capacity - 1) |-> EmptySlot]
    /\ slot_lock = [g \in 0..(index.group_capacity - 1) |-> 0]
    /\ state_lock = 0
    /\ requests = [g \in ValidGroups |-> None]
    /\ queued_request_count = 0
    /\ th = [t \in Threads |-> Idle]
    /\ last = NoCall
    /\ served = {}
    /\ ix = IxIdle
    /\ mesh = MeshIdle
    /\ lit = LitIdle
    /\ cow \in {CowStart(unlit_alive) : unlit_alive \in BOOLEAN}
    /\ req = ReqIdle
    /\ run = RunIdle

NextCow ==
    \/ \E flags \in CopyFlags : CowCopy(flags)
    \/ \E k \in {1, 2}, d \in Translations : CowTranslate(k, d)
    \/ \E k \in {1, 2}, s \in Scales : CowScale(k, s)
    \/ \E k \in {1, 2}, degrees \in Rotations : CowRotateY(k, degrees)
    \/ \E k \in {1, 2}, degrees \in Rotations : CowRotateYPos(k, degrees)
    \/ \E k \in {1, 2} : CowMirror(k)
    \/ \E k \in {1, 2} : CowReplaceColour(k, 7, 9)
    \/ \E k \in {1, 2} : CowReplaceMaterial(k, 4, 5)
    \/ \E k \in {1, 2} : CowGetCenter(k)
    \/ \E k \in {1, 2} : CowGetXyzRadius(k)

SpecCow == InitCow /\ [][NextCow]_vars

\* One queued request, its task and its pollers.
InitReq ==
    /\ discard_packed = FALSE
    /\ discard_unpacked = FALSE
    /\ groups = [g \in 0..(index.group_capacity - 1) |-> EmptySlot]
    /\ slot_lock = [g \in 0..(index.group_capacity - 1) |-> 0]
    /\ state_lock = 0
    /\ requests = [g \in ValidGroups |-> None]
    /\ queued_request_count = 0
    /\ th = [t \in Threads |-> Idle]
    /\ last = NoCall
    /\ served = {}
    /\ ix = IxIdle
    /\ mesh = MeshIdle
    /\ lit = LitIdle
    /\ cow = CowIdle
    /\ req = ReqQueued
    /\ run = RunIdle

NextReq ==
    \/ \E outcome \in {"ok", "err"} : ReqFetchResolved(outcome)
    \/ ReqCompleteData
    \/ ReqMarkComplete
    \/ ReqFetchSub
    \/ \E p \in Pollers : ReqIsCompleted(p)
    \/ \E p \in Pollers : ReqGetData(p)

SpecReq == InitReq /\ [][NextReq]_vars

\* One caller that only polls get_file; the provider's tasks run beside it.
NextPoll ==
    \/ \E a \in GetFileArgs : GetFileInvalid(1, a[1], a[2])
    \/ \E a \in GetFileArgs : GetFileCall(1, a[1], a[2])
    \/ \E a \in GetFileArgs : GetFileServe(1, a[1], a[2])
    \/ \E a \in GetFileArgs : GetFileMiss(1, a[1], a[2])
    \/ ProviderEnter(1)
    \/ ProviderQueueFull(1)
    \/ ProviderPoll(1)
    \/ \E g \in ValidGroups : TaskOk(g)
    \/ \E g \in ValidGroups : TaskFail(g)
    \/ OtherTasksDone

\* The arguments of get_file that pass is_file_valid.
ValidArgs == {a \in GetFileArgs : is_file_valid(a[1], a[2])}

\* A call of get_file runs to its return (no step of it blocks: the caller
\* is alone and fetch_group does not wait); the caller keeps calling
\* get_file with each valid argument; the tasks of the other archives end;
\* the fetch of a group the caller keeps requesting succeeds in the end.
FairPoll ==
    /\ WF_vars(\E a \in GetFileArgs :
                  GetFileServe(1, a[1], a[2]) \/ GetFileMiss(1, a[1], a[2]))
    /\ WF_vars(ProviderEnter(1) \/ ProviderQueueFull(1) \/ ProviderPoll(1))
    /\ \A a \in ValidArgs : SF_vars(GetFileCall(1, a[1], a[2]))
    /\ WF_vars(OtherTasksDone)
    /\ \A g \in ValidGroups : SF_vars(TaskOk(g))

SpecPoll == Init /\ [][NextPoll]_vars /\ FairPoll

\* unpack_group's split applied to one decompressed group.
InitSplit ==
    /\ discard_packed = FALSE
    /\ discard_unpacked = FALSE
    /\ groups = [g \in 0..(index.group_capacity - 1) |-> EmptySlot]
    /\ slot_lock = [g \in 0..(index.group_capacity - 1) |-> 0]
    /\ state_lock = 0
    /\ requests = [g \in ValidGroups |-> None]
    /\ queued_request_count = 0
    /\ th = [t \in Threads |-> Idle]
    /\ last = NoCall
    /\ served = {}
    /\ ix = IxIdle
    /\ mesh = MeshIdle
    /\ lit = LitIdle
    /\ cow = CowIdle
    /\ req = ReqIdle
    /\ run \in SplitStarts

NextSplit == UnpackSingle \/ UnpackSplit

SpecSplit == InitSplit /\ [][NextSplit]_vars


----------------------------------------------------------------------------
(* Properties of the group store.                                           *)

\* The file table of slot g holds file f.
Unpacked(group_data, f) ==
    /\ IsSome(group_data.unpacked)
    /\ f < Len(Unwrap(group_data.unpacked))
    /\ IsSome(At(Unwrap(group_data.unpacked), f))

\* (g, f) names a file the index lists, read off the index tables.
Listed(g, f) ==
    /\ g < index.group_capacity
    /\ f < At(index.group_file_capacities, g)
    /\ IF IsSome(At(index.group_file_ids, g))
       THEN \E j \in 1..At(index.group_file_counts, g) :
               Unwrap(At(index.group_file_ids, g))[j] = f
       ELSE f < At(index.group_file_counts, g)

\* C1 as stated: a get_file call decompresses only on a slot that holds no
\* unpacked table.
C1_NoDecompressWhileUnpacked ==
    [][(last'.op = "get_file" /\ last'.decs > 0)
          => IsNone(groups[last'.g].unpacked)]_vars

\* C1 amended: a get_file call decompresses at most once, and only when some
\* listed file of the group is missing from the slot's table (the table
\* being absent included); with discard_unpacked = false it decompresses
\* only on a slot without a table.
C1_DecompressOnlyWhenFileMissing ==
    [][(last'.op = "get_file" /\ last'.decs > 0)
          => /\ last'.decs = 1
             /\ \E f \in 0..(At(index.group_file_capacities, last'.g) - 1) :
                   Listed(last'.g, f) /\ ~Unpacked(groups[last'.g], f)
             /\ ~discard_unpacked => IsNone(groups[last'.g].unpacked)]_vars

\* A get_file call answered from the table, without a decompression, while
\* the packed bytes are still in the slot.
C1_Witness ==
    /\ last.op = "get_file" /\ IsSome(last.ret) /\ last.decs = 0
    /\ ~discard_unpacked
    /\ IsSome(groups[last.g].packed) /\ IsSome(groups[last.g].unpacked)

\* C2 as stated: once get_file(g, f) has returned bytes B, every later
\* get_file(g, f) returns B.
C2_SameBytesAlways ==
    [][\A x \in served :
          (last'.op = "get_file" /\ last'.g = x[1] /\ last'.f = x[2])
             => last'.ret = Some(x[3])]_vars

\* C2 amended: once get_file(g, f) has returned bytes B, a later
\* get_file(g, f) returns B or None, never other bytes, and it returns B
\* unless both discard_packed and discard_unpacked are set.
C2_SameBytesOrNone ==
    [][\A x \in served :
          (last'.op = "get_file" /\ last'.g = x[1] /\ last'.f = x[2])
             => /\ last'.ret \in {None, Some(x[3])}
                /\ ~(discard_packed /\ discard_unpacked) => last'.ret = Some(x[3])]_vars

\* A file that was served is asked for again and the answer is None.
C2_Witness ==
    /\ last.op = "get_file" /\ last.ret = None
    /\ \E x \in served : x[1] = last.g /\ x[2] = last.f

\* Thread t waits for a lock that thread u holds.
WaitsFor(t, u) ==
    \/ th[t].pc = "lock_slot" /\ slot_lock[th[t].g] = u
    \/ th[t].pc = "lock_state" /\ state_lock = u

\* C3 as stated: an operation on slot g never waits for a lock held by an
\* operation on a different slot.
C3_NoWaitAcrossSlots ==
    \A t \in Threads, u \in Threads :
        (t # u /\ WaitsFor(t, u)) => th[u].g = th[t].g

\* C3 amended: an operation never waits for a slot lock held by an operation
\* on a different slot, and a held slot lock belongs to an operation on that
\* slot; the one lock shared by all slots is the provider's state lock,
\* whose holder is inside fetch_group's poll and waits for nothing.
C3_SlotLocksPerSlot ==
    /\ \A t \in Threads, u \in Threads :
          (th[t].pc = "lock_slot" /\ slot_lock[th[t].g] = u) => th[u].g = th[t].g
    /\ \A g \in DOMAIN slot_lock :
          slot_lock[g] # 0
             => /\ th[slot_lock[g]].g = g
                /\ th[slot_lock[g]].pc \in {"lock_state", "in_provider", "panic"}
    /\ \A u \in Threads :
          state_lock = u => th[u].pc = "in_provider" /\ slot_lock[th[u].g] = u

\* An operation on one slot waits for the provider state lock while an
\* operation on another slot holds it.
C3_Witness ==
    \E t \in Threads, u \in Threads :
        /\ th[t].pc = "lock_state" /\ state_lock = u
        /\ th[u].g # th[t].g

\* C4: packed bytes appear in a slot only through a provider fetch made
\* while they are absent, are never replaced while present, and are removed
\* only by a decompression with discard_packed set; the unpacked table
\* appears only in a get_file call that decompresses packed bytes.
C4_SlotEdges ==
    [][\A g \in DOMAIN groups :
          /\ (IsNone(groups[g].packed) /\ IsSome(groups'[g].packed))
                => \E t \in Threads :
                      /\ th[t].pc = "in_provider" /\ th[t].g = g
                      /\ slot_lock[g] = t /\ th'[t].pc # "in_provider"
          /\ IsSome(groups[g].packed)
                => \/ groups'[g].packed = groups[g].packed
                   \/ /\ IsNone(groups'[g].packed) /\ discard_packed
                      /\ last'.op = "get_file" /\ last'.g = g /\ last'.decs = 1
          /\ (IsNone(groups[g].unpacked) /\ IsSome(groups'[g].unpacked))
                => /\ last'.op = "get_file" /\ last'.g = g /\ last'.decs = 1
                   /\ IsSome(groups[g].packed) \/ last'.fetched]_vars

\* A decompression has removed the packed bytes of group 2 and left its
\* table.
C4_Witness ==
    /\ discard_packed
    /\ last.op = "get_file" /\ last.g = 2 /\ last.decs = 1
    /\ IsNone(groups[2].packed) /\ IsSome(groups[2].unpacked)

\* C5: a get_file(g, f) that returns bytes leaves every other slot as it
\* was and keeps every other file of g that was unpacked, unchanged; with
\* discard_unpacked = false the requested file stays too; with
\* discard_unpacked = true exactly the requested entry goes, the whole
\* table when the group has one file.
C5_EvictOnlyRequested ==
    [][(last'.op = "get_file" /\ IsSome(last'.ret))
          => LET g == last'.g
                 f == last'.f
             IN  /\ \A o \in DOMAIN groups : o # g => groups'[o] = groups[o]
                 /\ \A k \in 0..(At(index.group_file_capacities, g) - 1) :
                       (Unpacked(groups[g], k) /\ (k # f \/ ~discard_unpacked))
                          => /\ Unpacked(groups'[g], k)
                             /\ At(Unwrap(groups'[g].unpacked), k)
                                  = At(Unwrap(groups[g].unpacked), k)
                 /\ ~discard_unpacked
                       => /\ Unpacked(groups'[g], f)
                          /\ At(Unwrap(groups'[g].unpacked), f) = last'.ret
                 /\ discard_unpacked
                       => /\ ~Unpacked(groups'[g], f)
                          /\ IF At(index.group_file_counts, g) = 1
                             THEN IsNone(groups'[g].unpacked)
                             ELSE /\ IsSome(groups'[g].unpacked)
                                  /\ \A k \in 0..(At(index.group_file_capacities, g) - 1) :
                                        (Listed(g, k) /\ k # f /\ last'.decs = 1)
                                           => Unpacked(groups'[g], k)]_vars

\* File 0 of the two-file group 2 was served and evicted; file 2 is still
\* in the table.
C5_Witness ==
    /\ discard_unpacked
    /\ last.op = "get_file" /\ last.g = 2 /\ last.f = 0 /\ IsSome(last.ret)
    /\ ~Unpacked(groups[2], 0) /\ Unpacked(groups[2], 2)

Delivered(t) ==
    /\ th[t].pc = "in_provider"
    /\ IsSome(requests[th[t].g])
    /\ Unwrap(requests[th[t].g]).completed
    /\ IsSome(Unwrap(requests[th[t].g]).data)

\* C7: get_file returns None for every (g, f) the index does not list, in
\* every slot state, and for a listed (g, f) whose group the provider has
\* not delivered, leaving the slots as they were; get_file never panics for
\* missing data.
C7_MissingIsNone ==
    [][/\ (last'.op = "get_file" /\ ~Listed(last'.g, last'.f)) => last'.ret = None
       /\ \A t \in Threads :
             /\ (/\ th[t].op = "get_file"
                 /\ th[t].pc \in {"lock_state", "in_provider"}
                 /\ th'[t].pc = "idle"
                 /\ ~Delivered(t))
                   => /\ last'.op = "get_file" /\ last'.t = t
                      /\ last'.ret = None
                      /\ groups' = groups
             /\ th'[t].pc = "panic" => th'[t].op # "get_file"]_vars

\* get_file on the hole (2, 1) of group 2's file-id list, with the table of
\* group 2 in the slot, returned None.
C7_Witness ==
    /\ last.op = "get_file" /\ last.g = 2 /\ last.f = 1 /\ last.ret = None
    /\ IsSome(groups[2].unpacked)

----------------------------------------------------------------------------
(* Properties of the decoders.                                              *)

\* C8: every malformed input is fatal.  An index is produced only from a
\* container with a known, implemented compression tag, a known protocol
\* byte and a CRC equal to the expected one when one was supplied; a mesh
\* is produced by decode_indices only when every index type is 1, 2, 3 or 4.
C8_MalformedIsFatal ==
    /\ ix.pc = "done"
          => /\ g1(ix.data, 0) \in {0, 1, 2}
             /\ g1(ix.buffer, 0) \in {5, 6, 7}
             /\ IsSome(ix.expected_crc) => Unwrap(ix.expected_crc) = LibCrc32(ix.data)
    /\ (mesh.op = "decode" /\ mesh.pc = "done")
          => \A k \in 1..Len(mesh.index_type_buf) : mesh.index_type_buf[k] \in {1, 2, 3, 4}

StrictlyIncreasing(s) == \A i \in 1..(Len(s) - 1) : s[i] < s[i + 1]

NonDecreasing(s) == \A i \in 1..(Len(s) - 1) : s[i] <= s[i + 1]

\* An optional per-group array, when present, has n entries.
OptionLen(o, n) == IsNone(o) \/ Len(Unwrap(o)) = n

\* Every per-group array of the decoded index has group_capacity entries.
PerGroupLengths(r) ==
    /\ Len(r.group_checksums) = r.group_capacity
    /\ Len(r.group_versions) = r.group_capacity
    /\ Len(r.group_file_counts) = r.group_capacity
    /\ Len(r.group_file_capacities) = r.group_capacity
    /\ Len(r.group_file_ids) = r.group_capacity
    /\ OptionLen(r.group_name_hashes, r.group_capacity)
    /\ OptionLen(r.group_uncompressed_checksums, r.group_capacity)
    /\ OptionLen(r.group_whirlpool_hashes, r.group_capacity)
    /\ OptionLen(r.group_data_sizes, r.group_capacity)
    /\ OptionLen(r.group_uncompressed_data_sizes, r.group_capacity)
    /\ OptionLen(r.group_file_name_hashes, r.group_capacity)
    /\ OptionLen(r.group_md5_hashes, r.group_capacity)

\* group_capacity is the last group id plus one, or there is no group.
CapacityIsLastPlusOne(r) ==
    \/ r.group_count = 0
    \/ r.group_capacity = r.group_ids[Len(r.group_ids)] + 1

StoredIndices(m) ==
    {m.triangle_a[k] : k \in 1..Len(m.triangle_a)}
    \cup {m.triangle_b[k] : k \in 1..Len(m.triangle_b)}
    \cup {m.triangle_c[k] : k \in 1..Len(m.triangle_c)}

\* 1 + the largest stored index; 0 for a mesh without triangles.
OnePlusLargest(m) ==
    IF StoredIndices(m) = {} THEN 0
    ELSE 1 + CHOOSE x \in StoredIndices(m) : \A y \in StoredIndices(m) : y <= x

\* C10: every mesh produced by decode_indices or by merge has
\* used_vertex_count = 1 + the largest index stored in its triangles.
C10_UsedVertexCount ==
    mesh.pc = "done" => mesh.used_vertex_count = OnePlusLargest(mesh)

----------------------------------------------------------------------------
(* Properties of the lit mesh builder and the lighting kernel.              *)

\* from_unlit has returned its mesh.
Built == lit.pc \in {"built", "lit", "div_by_zero"}

\* The size of the span of source vertex v.
SpanSize(l, v) == At(l.vertex_unique_index, v + 1) - At(l.vertex_unique_index, v)

\* The sum of the span sizes of the source vertices 0..n-1.
RECURSIVE SpanSum(_, _)
SpanSum(l, n) == IF n = 0 THEN 0 ELSE SpanSize(l, n - 1) + SpanSum(l, n - 1)

\* The render triangles that got render vertices: render type 0 or 1.
WithRenderVertices(l) ==
    {i \in 0..(l.triangle_count - 1) : At(l.triangle_render_type, i) \in {0, 1}}

\* C11 as stated: in every lit mesh built by from_unlit, whatever the
\* render types of the surviving triangles, the sum over the source
\* vertices of the span sizes equals render_vertex_count.
C11_SpansSumToRenderVertexCount ==
    Built => SpanSum(lit, lit.model.used_vertex_count) = lit.render_vertex_count

\* C11 amended: the sum of the span sizes is 3 * (number of surviving
\* triangles), the number of vertex_stream_pos slots, and
\* render_vertex_count is 3 * (number of surviving triangles of render type
\* 0 or 1); the two are equal exactly when every surviving triangle has
\* render type 0 or 1.
C11_SpansSumToSlotCount ==
    Built =>
        /\ SpanSum(lit, lit.model.used_vertex_count) = 3 * lit.triangle_count
        /\ SpanSum(lit, lit.model.used_vertex_count) = Len(lit.vertex_stream_pos)
        /\ lit.render_vertex_count = 3 * Cardinality(WithRenderVertices(lit))
        /\ (SpanSum(lit, lit.model.used_vertex_count) = lit.render_vertex_count)
             <=> (Cardinality(WithRenderVertices(lit)) = lit.triangle_count)

\* A built mesh with a smooth triangle and an alpha-key triangle: more
\* slots than render vertices.
C11_Witness ==
    /\ lit.pc = "built"
    /\ \E i \in 0..(lit.triangle_count - 1) : At(lit.triangle_render_type, i) = 3
    /\ \E i \in 0..(lit.triangle_count - 1) : At(lit.triangle_render_type, i) = 0
    /\ SpanSum(lit, lit.model.used_vertex_count) > lit.render_vertex_count
    /\ lit.render_vertex_count > 0

\* The vertex_stream_pos slots stamped with render vertex r.
SlotsOf(l, r) ==
    {j \in 0..(Len(l.vertex_stream_pos) - 1) : At(l.vertex_stream_pos, j) = r + 1}

\* The corners of the render triangles: render vertex and source vertex.
Corners(l) ==
    UNION { LET t == At(l.triangle_indices, i)
            IN  { <<At(l.triangle_render_a, i), At(l.model.triangle_a, t)>>,
                  <<At(l.triangle_render_b, i), At(l.model.triangle_b, t)>>,
                  <<At(l.triangle_render_c, i), At(l.model.triangle_c, t)>> } :
            i \in WithRenderVertices(l) }

\* C12: after from_unlit every render vertex r is stamped in exactly one
\* vertex_stream_pos slot (holding r + 1), the slot lies inside the span of
\* the source vertex of its corner, and add_render_vertex never stamps a
\* slot that is not 0.
C12_OneSlotPerRenderVertex ==
    /\ ~lit.restamped
    /\ Built =>
         /\ \A r \in 0..(lit.render_vertex_count - 1) :
                Cardinality(SlotsOf(lit, r)) = 1
         /\ {c[1] : c \in Corners(lit)} = 0..(lit.render_vertex_count - 1)
         /\ \A c \in Corners(lit) : \A j \in SlotsOf(lit, c[1]) :
                /\ At(lit.vertex_unique_index, c[2]) <= j
                /\ j < At(lit.vertex_unique_index, c[2] + 1)

\* A built mesh in which a source vertex has a span of several slots, all
\* of them stamped.
C12_Witness ==
    /\ lit.pc = "built"
    /\ lit.render_vertex_count >= 6
    /\ \E v \in 0..(lit.model.used_vertex_count - 1) :
          /\ SpanSize(lit, v) >= 2
          /\ \A j \in At(lit.vertex_unique_index, v)..(At(lit.vertex_unique_index, v + 1) - 1) :
                At(lit.vertex_stream_pos, j) # 0

\* The render triangle at position p is transparent.
RenderTransparent(l, p) == IsTriangleTransparent(l.model, At(l.triangle_indices, p))

\* The priority from_unlit puts into the key of source triangle t.
KeyPriority(l, t) ==
    IF /\ BitAnd(l.flags, ANIMATED_TRANSPARENCY) = ANIMATED_TRANSPARENCY
          \/ IsTriangleTransparent(l.model, t)
       /\ IsSome(l.model.triangle_priority)
    THEN At(Unwrap(l.model.triangle_priority), t) ELSE 0

\* The source triangles (transparent, material) = (0, 7), (1, 4), (0, 7) of
\* the example come out in the order #0, #2, #1.
SortExample(l) ==
    /\ l.model.triangle_count = 3
    /\ \A t \in {0, 2} : /\ ~IsTriangleTransparent(l.model, t)
                         /\ MapOr(l.model.triangle_material, -1, t) = 7
                         /\ MapOr(l.model.triangle_render_type, 0, t) # 2
    /\ IsTriangleTransparent(l.model, 1)
    /\ MapOr(l.model.triangle_material, -1, 1) = 4
    /\ MapOr(l.model.triangle_render_type, 0, 1) # 2
    /\ IsSome(l.model.triangle_priority) => At(Unwrap(l.model.triangle_priority), 1) = 3

\* C13 as stated: in the render-triangle list every transparent triangle
\* comes after every opaque triangle, for every flag set and any
\* priorities; the example comes out as #0, #2, #1.
C13_TransparentAfterOpaque ==
    Built =>
        /\ \A p, q \in 0..(lit.triangle_count - 1) :
              RenderTransparent(lit, p) /\ ~RenderTransparent(lit, q) => p > q
        /\ SortExample(lit) => lit.triangle_indices = <<0, 2, 1>>

\* C13 amended: a transparent triangle comes after an opaque triangle
\* exactly when the priority in its key is not lower than the one in the
\* opaque triangle's key; an opaque triangle has priority 0 in its key
\* unless the flags contain ANIMATED_TRANSPARENCY and the mesh has
\* priorities, so without that flag or without priorities every
\* transparent triangle comes after every opaque one; the example comes
\* out as #0, #2, #1.
C13_TransparentAfterOpaqueOfNoHigherPriority ==
    Built =>
        /\ \A p, q \in 0..(lit.triangle_count - 1) :
              RenderTransparent(lit, p) /\ ~RenderTransparent(lit, q) =>
                  (p > q <=> KeyPriority(lit, At(lit.triangle_indices, p))
                               >= KeyPriority(lit, At(lit.triangle_indices, q)))
        /\ \/ BitAnd(lit.flags, ANIMATED_TRANSPARENCY) = 0
           \/ IsNone(lit.model.triangle_priority)
           => \A p, q \in 0..(lit.triangle_count - 1) :
                 RenderTransparent(lit, p) /\ ~RenderTransparent(lit, q) => p > q
        /\ SortExample(lit) => lit.triangle_indices = <<0, 2, 1>>

\* A mesh built with ANIMATED_TRANSPARENCY in which a transparent triangle
\* of lower priority precedes an opaque one.
C13_Witness ==
    /\ lit.pc = "built"
    /\ BitAnd(lit.flags, ANIMATED_TRANSPARENCY) = ANIMATED_TRANSPARENCY
    /\ \E p, q \in 0..(lit.triangle_count - 1) :
          /\ p < q
          /\ RenderTransparent(lit, p) /\ ~RenderTransparent(lit, q)
          /\ KeyPriority(lit, At(lit.triangle_indices, p))
               < KeyPriority(lit, At(lit.triangle_indices, q))

\* The upper 48 bits of the sort key of source triangle t.
Upper48(l, t) == SubSeq(At(l.sort_keys, t), 1, 5)

\* C14: the triangle sort is stable: two surviving triangles with equal
\* upper 48 bits of sort key are in the render-triangle list in the order
\* they have in the source triangle list.
C14_StableSort ==
    Built =>
        \A p, q \in 0..(lit.triangle_count - 1) :
            /\ p < q
            /\ Upper48(lit, At(lit.triangle_indices, p))
                 = Upper48(lit, At(lit.triangle_indices, q))
            => At(lit.triangle_indices, p) < At(lit.triangle_indices, q)

\* A built mesh in which two triangles with equal upper key bits had a
\* triangle with another key between them in the source list.
C14_Witness ==
    /\ lit.pc = "built"
    /\ \E p, q, r \in 0..(lit.triangle_count - 1) :
          /\ p < q
          /\ Upper48(lit, At(lit.triangle_indices, p))
               = Upper48(lit, At(lit.triangle_indices, q))
          /\ At(lit.triangle_indices, p) < At(lit.triangle_indices, r)
          /\ At(lit.triangle_indices, r) < At(lit.triangle_indices, q)
          /\ Upper48(lit, At(lit.triangle_indices, r))
               # Upper48(lit, At(lit.triangle_indices, p))

\* C15: calc_lit_colours never divides by zero, for every light vector,
\* ambient and contrast and every mesh built by from_unlit.
C15_NoDivisionByZero == lit.pc # "div_by_zero"

\* The untextured triangles calc_lit_colours shades with adjust_lightness.
Adjusted(l) ==
    {t \in 0..(l.triangle_count - 1) :
        At(l.triangle_material, t) = -1 /\ LightRenderType(l, t) \in {0, 1}}

\* (hsl & 0xFF80) | clamp((hsl & 0x7F) * L >> 7, 2, 126), in arithmetic.
AdjustedColour(hsl, lightness) ==
    LET scaled == ((hsl % 128) * lightness) \div 128
    IN  (hsl - (hsl % 128))
          + (IF scaled < 2 THEN 2 ELSE IF scaled > 126 THEN 126 ELSE scaled)

\* Colour a of every triangle shaded with adjust_lightness keeps the upper
\* 9 bits of the triangle colour and has the clamped lightness below them.
AdjustLightnessRule ==
    lit.pc = "lit" =>
        \A t \in Adjusted(lit) :
            At(lit.triangle_colours_a, t)
                = AdjustedColour(At(lit.triangle_colour, t), At(lit.lightness_a, t))

\* Every triangle of colour hsl shaded at lightness L gets `result`.
AdjustLightnessExample(hsl, lightness, result) ==
    lit.pc = "lit" =>
        \A t \in Adjusted(lit) :
            At(lit.triangle_colour, t) = hsl /\ At(lit.lightness_a, t) = lightness
            => At(lit.triangle_colours_a, t) = result

\* C16 as stated: adjust_lightness keeps the upper 9 bits and replaces the
\* low 7 bits by the clamped product; adjust_lightness(0x3F80, 300) =
\* 0x3F7E and adjust_lightness(0x3F01, 0) = 0x3F02.
C16_AdjustLightness ==
    /\ AdjustLightnessRule
    /\ AdjustLightnessExample(16256, 300, 16254)
    /\ AdjustLightnessExample(16129, 0, 16130)

\* C16 amended: the same rule; adjust_lightness(0x3F80, 300) = 0x3F82 (the
\* low 7 bits of 0x3F80 are 0, the product 0 is clamped to 2) and
\* adjust_lightness(0x3F01, 0) = 0x3F02.
C16_AdjustLightnessClampsLow ==
    /\ AdjustLightnessRule
    /\ AdjustLightnessExample(16256, 300, 16258)
    /\ AdjustLightnessExample(16129, 0, 16130)

\* calc_lit_colours has shaded a triangle of colour 0x3F80 at lightness 300.
C16_Witness ==
    /\ lit.pc = "lit"
    /\ \E t \in Adjusted(lit) :
          At(lit.triangle_colour, t) = 16256 /\ At(lit.lightness_a, t) = 300


----------------------------------------------------------------------------
(* Properties of lit mesh copies and transforms.                            *)

\* The array values observable through mesh k.
View(c, k) == [f \in CowFields |-> Arr(c, k, f)]

\* The fields whose array the two meshes share.
SharedFields(c) == {f \in CowFields : c.meshes[1][f] = c.meshes[2][f]}

\* C17: once m2 = m.copy(flags) exists, a call on one of the two meshes
\* changes no array value observable through the other one, and a call that
\* takes an array the two still share to write it panics.
C17_CopyOnWriteIsolation ==
    [][(Len(cow.meshes) = 2 /\ cow' # cow) =>
          /\ View(cow', 3 - cow'.last.target) = View(cow, 3 - cow'.last.target)
          /\ (cow'.last.writes \cap SharedFields(cow) # {} => cow'.pc = "panic")]_vars

\* A transform of the copy has written an array of its own while another
\* array is still shared with the original.
C17_Witness ==
    /\ cow.pc = "run"
    /\ Len(cow.meshes) = 2
    /\ cow.last.target = 2
    /\ cow.last.writes # {}
    /\ View(cow, 1) # View(cow, 2)
    /\ SharedFields(cow) # {}

\* A call of translate, scale, rotate_y, mirror, replace_colour or
\* replace_material has returned.
TransformReturned(ops) == cow.pc = "run" /\ cow.last.op \in ops

\* C18 as stated: on return from any of the six transforms the bounds of the
\* mesh are absent.
C18_EachInvalidatesBounds ==
    TransformReturned({"translate", "scale", "rotate_y", "mirror",
              "replace_colour", "replace_material"})
        => IsNone(cow.meshes[cow.last.target].bounds)

\* C18: on return from translate, scale, rotate_y or mirror the bounds of the
\* mesh are absent, whatever they were before the call; on return from
\* replace_colour or replace_material they are what they were before it.
C18_GeometryInvalidatesBounds ==
    /\ TransformReturned({"translate", "scale", "rotate_y", "mirror"})
           => IsNone(cow.meshes[cow.last.target].bounds)
    /\ TransformReturned({"replace_colour", "replace_material"})
           => cow.meshes[cow.last.target].bounds = cow.last.had_bounds

\* A mesh with cached bounds has been translated, scaled, rotated or mirrored.
C18_Witness ==
    /\ TransformReturned({"translate", "scale", "rotate_y", "mirror"})
    /\ IsSome(cow.last.had_bounds)
    /\ IsNone(cow.meshes[cow.last.target].bounds)


----------------------------------------------------------------------------
(* Properties of one request, its task and its pollers.                     *)

\* For a request whose fetch succeeded: the data is stored if completed is
\* set, and a poller that has seen is_completed() = true and called
\* get_data() has got Some(data).
StoredBeforeCompleted(r) ==
    r.outcome = "ok" =>
        /\ r.completed => r.data = Loaded(ReqPayload)
        /\ \A p \in Pollers : r.pollers[p].pc = "got" => r.pollers[p].ret = Some(ReqPayload)

\* C19: for a request whose fetch succeeds, the data is stored before
\* completed is set: after every step of the task or of a poller, a poller
\* that has seen is_completed() = true has got Some(data) from its
\* get_data(); and completed never returns to false.
C19_DataBeforeCompleted ==
    [][StoredBeforeCompleted(req') /\ (req.completed => req'.completed)]_vars

\* A poller has got the data of a successful request from get_data before
\* the task has ended, on its second poll.
C19_Witness ==
    /\ req.outcome = "ok"
    /\ TaskAt("fetch_sub")
    /\ \E p \in Pollers :
         /\ req.pollers[p].pc = "got"
         /\ req.pollers[p].polls = 2
         /\ req.pollers[p].ret = Some(ReqPayload)


----------------------------------------------------------------------------
(* Properties of a polling caller.                                          *)

\* The caller is in a call of get_file(g, f).
Polling(a) == th[1].op = "get_file" /\ th[1].g = a[1] /\ th[1].f = a[2] /\ th[1].pc # "idle"

\* A call of get_file(g, f) has returned bytes.
GotBytes(a) ==
    last.op = "get_file" /\ last.g = a[1] /\ last.f = a[2] /\ IsSome(last.ret)

\* The caller's fetch_group finds the request of group g completed without
\* data (its fetch failed): the call returns None and the request leaves the
\* table.  The caller's fetch_group finds no request of group g and the net
\* client has room: a new request is queued.
FailedFetchDropped ==
    \A g \in ValidGroups :
        /\ ( /\ th[1].pc = "in_provider" /\ th[1].g = g /\ th'[1].pc = "idle"
             /\ Unwrap(requests[g]).completed /\ IsNone(Unwrap(requests[g]).data) )
              => /\ last'.op = "get_file" /\ IsNone(last'.ret)
                 /\ IsNone(requests'[g])
        /\ ( /\ th[1].pc = "lock_state" /\ th[1].g = g /\ th'[1].pc # "lock_state"
             /\ IsNone(requests[g]) /\ queued_request_count < MaxQueued )
              => requests'[g] = Some(NewRequest)

----------------------------------------------------------------------------
(* Properties of the group split.                                           *)

RECURSIVE SeqSum(_)
SeqSum(s) == IF s = <<>> THEN 0 ELSE Head(s) + SeqSum(Tail(s))

\* The delta of file j in chunk c, as the trailer was written.
DeltaOf(c, j) == run.deltas[c * run.file_count + j + 1]

\* The sum of the deltas of chunk c for the files 0..j.
PieceLength(c, j) == SeqSum([i \in 1..(j + 1) |-> DeltaOf(c, i - 1)])

\* The lengths of the pieces before the piece of file j in chunk c, in
\* chunk-major, file-minor order.
PieceOffset(c, j) ==
    SeqSum([n \in 1..(c * run.file_count + j) |->
               PieceLength((n - 1) \div run.file_count, (n - 1) % run.file_count)])

\* The pieces of file j in chunk order, one after the other.
FileOf(j) ==
    Concat([c \in 1..(Len(run.deltas) \div run.file_count) |->
               SubSeq(run.decompressed, PieceOffset(c - 1, j) + 1,
                      PieceOffset(c - 1, j) + PieceLength(c - 1, j))])

SplitDone(file_count) == run.op = "unpack" /\ run.pc = "done" /\ run.file_count = file_count

\* C21: a group of one file is its decompressed payload.  In a group of two
\* or more files the piece of file j in a chunk is as long as the sum of the
\* chunk's deltas for the files 0..j, the pieces lie one after the other from
\* the start of the payload in chunk-major, file-minor order, and file j is
\* its pieces in chunk order; two files and one chunk with deltas a, b have
\* the lengths a and a + b.
C21_GroupSplit ==
    /\ SplitDone(1) => run.files = <<run.decompressed>>
    /\ \A n \in SplitFileCounts \ {1} :
         SplitDone(n) =>
            /\ Len(run.files) = n
            /\ \A j \in 0..(n - 1) : run.files[j + 1] = FileOf(j)
    /\ (SplitDone(2) /\ Len(run.deltas) = 2) =>
            /\ Len(run.files[1]) = run.deltas[1]
            /\ Len(run.files[2]) = run.deltas[1] + run.deltas[2]

\* Three files in two chunks have been split, the second chunk's first
\* delta differing from the first chunk's.
C21_Witness ==
    /\ SplitDone(3)
    /\ Len(run.deltas) = 6
    /\ run.deltas[1] # run.deltas[4]
    /\ \A j \in 1..3 : Len(run.files[j]) > 0


InitModel ==
    /\ discard_packed = FALSE
    /\ discard_unpacked = FALSE
    /\ groups = [g \in 0..(index.group_capacity - 1) |-> EmptySlot]
    /\ slot_lock = [g \in 0..(index.group_capacity - 1) |-> 0]
    /\ state_lock = 0
    /\ requests = [g \in ValidGroups |-> None]
    /\ queued_request_count = 0
    /\ th = [t \in Threads |-> Idle]
    /\ last = NoCall
    /\ served = {}
    /\ ix = IxIdle
    /\ mesh = MeshIdle
    /\ lit = LitIdle
    /\ cow = CowIdle
    /\ req = ReqIdle
    /\ run \in ModelStarts

NextModel == DecodeVersion \/ DecodeV0 \/ DecodeV1 \/ DecodeV0Maya \/ DecodeV1Maya

SpecModel == InitModel /\ [][NextModel]_vars


\* The size of the trailer of a format.
TrailerSize(format) ==
    CASE format = "v0" -> 18 [] format = "v1_maya" -> 26 [] OTHER -> 23

\* The three counts at the start of the trailer of the given size.
TrailerCounts(data, size) ==
    [vertex_count |-> g2(data, Len(data) - size),
     triangle_count |-> g2(data, Len(data) - size + 2),
     textured_triangle_count |-> g1(data, Len(data) - size + 4)]

\* The mesh has the counts and the coordinate and triangle arrays have
\* their lengths.
HasCounts(model, counts) ==
    /\ model.vertex_count = counts.vertex_count
    /\ model.triangle_count = counts.triangle_count
    /\ model.textured_triangle_count = counts.textured_triangle_count
    /\ Len(model.vertex_x) = counts.vertex_count
    /\ Len(model.vertex_y) = counts.vertex_count
    /\ Len(model.vertex_z) = counts.vertex_count
    /\ Len(model.triangle_a) = counts.triangle_count
    /\ Len(model.triangle_b) = counts.triangle_count
    /\ Len(model.triangle_c) = counts.triangle_count

\* C22: whichever of the four formats the last two bytes select, decode
\* ends with a mesh whose vertex, triangle and textured triangle counts are
\* those at the start of that format's trailer (18, 23, 23 or 26 bytes
\* before the end), with coordinate and triangle arrays of those lengths.
C22_DecodeYieldsTrailerCounts ==
    (run.op = "decode" /\ run.pc \in {"done", "panic"})
        => /\ run.pc = "done"
           /\ HasCounts(run.model,
                  TrailerCounts(run.data,
                      TrailerSize(ModelFormat(ModelVersion(run.data)))))


\* The signed value of a smart code of one or two bytes.
SmartValue(code) ==
    IF Len(code) = 1 THEN code[1] - 64 ELSE code[1] * 256 + code[2] - 49152

\* The deltas of a triangle whose codes are drawn from SmartCodes.
TriangleDeltas(triangle) ==
    LET codes == CHOOSE cs \in UNION {[1..k -> SmartCodes] : k \in 0..3} :
                     Concat(cs) = triangle.codes
    IN  [k \in 1..Len(codes) |-> SmartValue(codes[k])]

\* The state (a, b, c, last_index) an index type and its deltas lead to.
IndexStep(s, type, d) ==
    CASE type = 1 -> <<d[1] + s[4], d[2] + d[1] + s[4], d[3] + d[2] + d[1] + s[4],
                       d[3] + d[2] + d[1] + s[4]>>
      [] type = 2 -> <<s[1], s[3], d[1] + s[4], d[1] + s[4]>>
      [] type = 3 -> <<s[3], s[2], d[1] + s[4], d[1] + s[4]>>
      [] OTHER    -> <<s[2], s[1], d[1] + s[4], d[1] + s[4]>>

IndexState(m) == <<m.a, m.b, m.c, m.last_index>>

\* Triangle i as stored.
Emitted(m, i) == <<At(m.triangle_a, i), At(m.triangle_b, i), At(m.triangle_c, i)>>

\* The example: type 1 with deltas +3, +2, +1, then type 2 with delta +5.
IndexExample ==
    LET m == decode_indices(<<67, 66, 65, 69, 1, 2>>, 2, 0, 4)
    IN  /\ IndexState(m) = <<3, 6, 11, 11>>
        /\ Emitted(m, 0) = <<3, 5, 6>>
        /\ Emitted(m, 1) = <<3, 6, 11>>

\* C23: each step of decode_indices with an index type in {1, 2, 3, 4}
\* takes (a, b, c, last_index) to the state listed for the type and stores
\* as triangle i exactly the (a, b, c) of that state; from (0, 0, 0, 0),
\* type 1 with +3, +2, +1 gives (3, 5, 6, 6) and type 2 with +5 then gives
\* (3, 6, 11, 11).
C23_IndexStateMachine ==
    [][\A triangle \in TriangleInputs :
          ( /\ mesh.pc = "indices" /\ mesh.i < mesh.triangle_count
            /\ triangle.type \in {1, 2, 3, 4}
            /\ mesh' = decode_triangle(NextTriangle(mesh, triangle)) )
          => /\ IndexExample
             /\ IndexState(mesh')
                  = IndexStep(IndexState(mesh), triangle.type, TriangleDeltas(triangle))
             /\ Emitted(mesh', mesh.i)
                  = <<mesh'.a, mesh'.b, mesh'.c>>]_vars


\* merge has returned its mesh.
Merged == mesh.op = "merge" /\ mesh.pc = "done"

\* The number of triangles, or of texture mappings, of the sources before
\* source s (1-based).
BeforeSource(models, s, field) == SumOver(SubSeq(models, 1, s - 1), field)

\* The merged vertex at index i is at the position of vertex src of model.
MergedAt(i, model, src) ==
    /\ i < mesh.vertex_count
    /\ SamePosition(mesh, i, model, src)

\* C24: in the mesh merge returns no two merged vertices have the same
\* (x, y, z), and triangle k of source s is stored at index (triangles of the
\* earlier sources) + k with corners at the positions of the source
\* triangle's corners a, b, c.
C24_MergeDeduplicatesAndKeepsGeometry ==
    Merged =>
        /\ \A i, j \in 0..(mesh.vertex_count - 1) :
              SamePosition(mesh, i, mesh, j) => i = j
        /\ \A s \in 1..Len(mesh.models) :
              \A k \in 0..(mesh.models[s].triangle_count - 1) :
                 LET model == mesh.models[s]
                     n == BeforeSource(mesh.models, s, "triangle_count") + k
                 IN  /\ n < mesh.triangle_count
                     /\ MergedAt(At(mesh.triangle_a, n), model, At(model.triangle_a, k))
                     /\ MergedAt(At(mesh.triangle_b, n), model, At(model.triangle_b, k))
                     /\ MergedAt(At(mesh.triangle_c, n), model, At(model.triangle_c, k))

\* Two sources with three triangles that share positions have been merged
\* into fewer vertices than they have together.
C24_Witness ==
    /\ Merged
    /\ Len(mesh.models) = 2
    /\ mesh.triangle_count = 3
    /\ mesh.vertex_count = 4
    /\ SumOver(mesh.models, "vertex_count") = 6

\* The reference r of a source rebased by the texture mappings before it.
Rebased(r, before) == IF r >= 0 /\ r < 32766 THEN r + before ELSE r

\* The merged texture mapping at index n is mapping r of model.
SameMapping(n, model, r) ==
    LET props == Unwrap(mesh.texture_props)
        src == Unwrap(model.texture_props)
    IN  /\ n < Len(props.render_types)
        /\ At(props.render_types, n) = At(src.render_types, r)
        /\ MergedAt(At(props.mapping_p, n), model, At(src.mapping_p, r))
        /\ MergedAt(At(props.mapping_m, n), model, At(src.mapping_m, r))
        /\ MergedAt(At(props.mapping_n, n), model, At(src.mapping_n, r))

\* C25: for every source s with a texture-coordinate array and its triangle
\* k with reference r, the merged triangle at index (triangles of the
\* earlier sources) + k carries r + (texture mappings of the earlier
\* sources) when 0 <= r < 32766 and r when r is -1 or 32766, and a rebased
\* reference points at mapping r of source s; the other sources may or may
\* not have a texture-coordinate array.
C25_TextureCoordsRebased ==
    Merged =>
        \A s \in 1..Len(mesh.models) :
           LET model == mesh.models[s]
               before == BeforeSource(mesh.models, s, "textured_triangle_count")
           IN  IsSome(model.triangle_texture_coords) =>
                 /\ IsSome(mesh.triangle_texture_coords)
                 /\ \A k \in 0..(model.triangle_count - 1) :
                      LET r == At(Unwrap(model.triangle_texture_coords), k)
                          n == BeforeSource(mesh.models, s, "triangle_count") + k
                          merged == At(Unwrap(mesh.triangle_texture_coords), n)
                      IN  /\ merged = Rebased(r, before)
                          /\ (r >= 0 /\ r < 32766) => SameMapping(merged, model, r)

\* The optional per-triangle arrays other than the priorities.
OptionalArrays ==
    {"triangle_render_type", "triangle_transparency", "triangle_material",
     "triangle_texture_coords", "triangle_skins"}

\* The sources' priorities are not all equal.
NonUnitPriorities(models) ==
    \E i, j \in 1..Len(models) : models[i].priority # models[j].priority

\* C26 as stated: the merged mesh has a per-triangle priority array only if
\* a source has one and the sources' priorities are not all equal, and, like
\* the other optional arrays, never when no source has it.
C26_PriorityArrayOnlyFromSources ==
    Merged =>
        /\ IsSome(mesh.triangle_priority)
              => /\ AnyHas(mesh.models, "triangle_priority")
                 /\ NonUnitPriorities(mesh.models)
        /\ \A field \in OptionalArrays :
              IsSome(mesh[field]) => AnyHas(mesh.models, field)

\* C26 as amended: the merged mesh has a per-triangle priority array only
\* if the sources' priorities are not all equal, whether or not a source has
\* such an array, and each merged triangle then carries its source's
\* per-triangle priority or, for a source without the array, the source's
\* priority; every other optional array is there only if a source has it.
C26_PriorityArrayOnlyIfNonUnit ==
    Merged =>
        /\ IsSome(mesh.triangle_priority) => NonUnitPriorities(mesh.models)
        /\ IsSome(mesh.triangle_priority) =>
              \A s \in 1..Len(mesh.models) :
                 \A k \in 0..(mesh.models[s].triangle_count - 1) :
                    LET model == mesh.models[s]
                        n == BeforeSource(mesh.models, s, "triangle_count") + k
                    IN  At(Unwrap(mesh.triangle_priority), n)
                          = IF IsSome(model.triangle_priority)
                            THEN At(Unwrap(model.triangle_priority), k)
                            ELSE model.priority
        /\ \A field \in OptionalArrays :
              IsSome(mesh[field]) => AnyHas(mesh.models, field)

\* Two sources without a per-triangle priority array and with the priorities
\* 0 and 5 have been merged, and the merged mesh has the array.
C26_Witness ==
    /\ Merged
    /\ Len(mesh.models) = 2
    /\ ~AnyHas(mesh.models, "triangle_priority")
    /\ mesh.models[1].priority = 0 /\ mesh.models[2].priority = 5
    /\ mesh.triangle_priority = Some(<<0, 5>>)


\* The calls of the two concurrent callers of the store.
CallsGetFile == {<<0, 0>>, <<2, 0>>}

CallsIsFileReady == {<<0, 1>>, <<2, 0>>}

CallsIsGroupReady == {2}

InitCalls ==
    /\ discard_packed = FALSE
    /\ discard_unpacked = FALSE
    /\ groups = [g \in 0..(index.group_capacity - 1) |-> EmptySlot]
    /\ slot_lock = [g \in 0..(index.group_capacity - 1) |-> 0]
    /\ state_lock = 0
    /\ requests = [g \in ValidGroups |-> None]
    /\ queued_request_count = 0
    /\ th = [t \in Threads |-> Idle]
    /\ last = NoCall
    /\ served = {}
    /\ ix = IxIdle
    /\ mesh = MeshIdle
    /\ lit = LitIdle
    /\ cow = CowIdle
    /\ req = ReqIdle
    /\ run = RunIdle

NextCalls ==
    \/ \E t \in Threads, a \in CallsGetFile : GetFileCall(t, a[1], a[2])
    \/ \E t \in Threads, a \in CallsGetFile : GetFileServe(t, a[1], a[2])
    \/ \E t \in Threads, a \in CallsGetFile : GetFileMiss(t, a[1], a[2])
    \/ \E t \in Threads, g \in CallsIsGroupReady : IsGroupReadyCall(t, g)
    \/ \E t \in Threads, g \in CallsIsGroupReady : IsGroupReadyHit(t, g)
    \/ \E t \in Threads, g \in CallsIsGroupReady : IsGroupReadyMiss(t, g)
    \/ \E t \in Threads, a \in CallsIsFileReady : IsFileReadyCall(t, a[1], a[2])
    \/ \E t \in Threads, a \in CallsIsFileReady : IsFileReadyHit(t, a[1], a[2])
    \/ \E t \in Threads, a \in CallsIsFileReady : IsFileReadyMiss(t, a[1], a[2])
    \/ \E t \in Threads, a \in CallsIsFileReady : IsFileReadyPanic(t, a[1], a[2])
    \/ \E t \in Threads : FetchAllCall(t)
    \/ \E t \in Threads, i \in 0..(index.group_count - 1) : FetchAllSkip(t, i)
    \/ \E t \in Threads, i \in 0..(index.group_count - 1) : FetchAllMiss(t, i)
    \/ \E t \in Threads : ProviderEnter(t)
    \/ \E t \in Threads : ProviderPoll(t)
    \/ \E g \in ValidGroups : TaskOk(g)
    \/ \E g \in ValidGroups : TaskFail(g)

\* The step of a caller at the lock() of a slot.
SlotStep(t) ==
    \/ \E a \in CallsGetFile : GetFileServe(t, a[1], a[2]) \/ GetFileMiss(t, a[1], a[2])
    \/ \E g \in CallsIsGroupReady : IsGroupReadyHit(t, g) \/ IsGroupReadyMiss(t, g)
    \/ \E a \in CallsIsFileReady :
          \/ IsFileReadyHit(t, a[1], a[2])
          \/ IsFileReadyMiss(t, a[1], a[2])
          \/ IsFileReadyPanic(t, a[1], a[2])
    \/ \E i \in 0..(index.group_count - 1) : FetchAllSkip(t, i) \/ FetchAllMiss(t, i)

\* Fair scheduling: a caller that finds a lock free again and again gets it
\* in the end, and a caller inside the provider goes on.
FairCalls ==
    \A t \in Threads :
        /\ SF_vars(SlotStep(t))
        /\ SF_vars(ProviderEnter(t))
        /\ WF_vars(ProviderPoll(t))

SpecCalls == InitCalls /\ [][NextCalls]_vars /\ FairCalls


\* The slot locks thread t holds.
SlotsHeld(t) == {g \in DOMAIN slot_lock : slot_lock[g] = t}

\* A thread holds at most one slot lock; the provider state lock is held
\* only by a thread that holds a slot lock and is inside fetch_group, where
\* the request data is read.
LockOrder ==
    \A t \in Threads :
        /\ Cardinality(SlotsHeld(t)) <= 1
        /\ state_lock = t => (SlotsHeld(t) = {th[t].g} /\ th[t].pc = "in_provider")
        /\ th[t].pc \in {"lock_state", "in_provider"} => SlotsHeld(t) = {th[t].g}
        /\ th[t].pc \in {"idle", "lock_slot"} => (SlotsHeld(t) = {} /\ state_lock # t)

\* C27: concurrent callers of get_file, fetch_all, is_group_ready and
\* is_file_ready hold at most one slot lock each and take the provider state
\* lock and the request data after the slot lock only, and every call
\* returns under fair scheduling.
C27_CallsNeverDeadlock ==
    /\ [](Alive => LockOrder)
    /\ \A t \in Threads : (th[t].pc # "idle") ~> (th[t].pc = "idle")


\* The request for group g is in the table and its task has not completed.
Pending(g) == IsSome(requests[g]) /\ ~Unwrap(requests[g]).completed

\* The callers whose fetch_group(g) returns in this step.
PollsReturning(g) ==
    {t \in Threads : th[t].pc = "in_provider" /\ th[t].g = g /\ th'[t].pc # "in_provider"}

\* The callers whose fetch_group(g) takes the state lock in this step.
PollsEntering(g) ==
    {t \in Threads : th[t].pc = "lock_state" /\ th[t].g = g /\ th'[t].pc = "in_provider"}

\* What a step does to the table entry of group g.
RequestStep(g) ==
    /\ IsNone(requests[g]) /\ IsSome(requests'[g])
         => /\ requests'[g] = Some(NewRequest)
            /\ queued_request_count' = queued_request_count + 1
    /\ Pending(g)
         => /\ IsSome(requests'[g])
            /\ PollsEntering(g) \cup PollsReturning(g) # {}
                 => /\ requests'[g] = requests[g]
                    /\ queued_request_count' = queued_request_count
    /\ (IsSome(requests[g]) /\ ~Pending(g))
         => /\ requests'[g] \in {requests[g], None}
            /\ IsNone(requests'[g]) <=> Cardinality(PollsReturning(g)) = 1

\* C28: the provider has at most one request per group in flight: while
\* the request for g is pending no fetch_group(g) queues another (the entry
\* and the number of queued requests stay as they are), a request is queued
\* only for a group without an entry, and the entry is removed exactly by
\* the one poll that finds it completed.
C28_OneRequestPerGroup ==
    [][/\ \A g \in ValidGroups : RequestStep(g)
       /\ queued_request_count' > queued_request_count
            => Cardinality({g \in ValidGroups :
                               IsNone(requests[g]) /\ IsSome(requests'[g])}) = 1]_vars

\* A poll of is_group_ready(2) has returned false and the request for
\* group 2 it polled is still pending, the only one queued.
C28_Witness ==
    /\ last.op = "is_group_ready" /\ last.g = 2 /\ last.fetched /\ ~last.retb
    /\ Pending(2)
    /\ queued_request_count = 1


\* get_file(g, f), called in this state, returns bytes without a fetch.
GetFileReady(g, f) ==
    /\ is_file_valid(g, f)
    /\ slot_lock[g] = 0
    /\ LET h == GetFileHit(groups[g], g, f)
       IN  h.ok /\ ~h.panic /\ IsSome(h.read.file)

\* The group g has the file f: f is below the file capacity and listed.
HasFile(g, f) == is_file_valid(g, f) /\ f \in ListedFileIds(g)

\* C29: is_file_ready(g, f) never ends in a panic; when it returns true, a
\* get_file(g, f) that follows immediately returns bytes without a provider
\* fetch; and it returns false for every file id the group does not have.
C29_IsFileReadyMeansServable ==
    /\ \A t \in Threads : ~(th[t].pc = "panic" /\ th[t].op = "is_file_ready")
    /\ last.op = "is_file_ready"
         => /\ last.retb => GetFileReady(last.g, last.f)
            /\ ~HasFile(last.g, last.f) => ~last.retb


\* The bounds of the mesh from_unlit returned, before any transform.
FirstBounds == calculate_bounds(CowStart(FALSE), 1)

\* C30: after any sequence of get_center, get_xyz_radius, translate, scale,
\* rotate_y, rotate_y_pos, mirror and copy calls that have returned, the
\* bounds of every lit mesh that has them are calculate_bounds() of the
\* mesh's vertex arrays as they are now.
C30_BoundsNeverStale ==
    cow.pc = "run"
        => \A k \in DOMAIN cow.meshes :
              IsSome(cow.meshes[k].bounds)
                  => Unwrap(cow.meshes[k].bounds) = calculate_bounds(cow, k)

\* get_xyz_radius has computed the bounds of a mesh that was transformed
\* before: they are not the bounds of the first mesh.
C30_Witness ==
    /\ cow.pc = "run"
    /\ cow.last.op = "get_xyz_radius"
    /\ IsNone(cow.last.had_bounds)
    /\ cow.ops >= 2
    /\ IsSome(cow.meshes[cow.last.target].bounds)
    /\ Unwrap(cow.meshes[cow.last.target].bounds) # FirstBounds

====
